---- MODULE Spec2Model ----
(***************************************************************************)
(* Model of the user-manager-api: the HTTP handlers, the user use case,    *)
(* the domain constructor and the MongoDB repository, over a document      *)
(* store modelled as a sequence of documents in natural (insertion) order. *)
(*                                                                         *)
(* Strings are sequences of one-character strings, so that trimming,       *)
(* lowercasing, splitting, searching and parsing are computed and not      *)
(* assumed.  Go's int / int64 are 64-bit two's complement numbers, kept as *)
(* four 16-bit limbs (least significant first) where the code computes     *)
(* with values that can leave the range, and as plain integers elsewhere.  *)
(***************************************************************************)
EXTENDS Integers, Sequences, FiniteSets, TLC

VARIABLES store, reading, nextId, now, req, resp, ops, calc, calls

vars == <<store, reading, nextId, now, req, resp, ops, calc, calls>>

(***************************************************************************)
(* Bounds of the model.                                                    *)
(***************************************************************************)
\* Registrations stop once this many identifiers have been generated.
MaxUsers == 2
\* The clock (time.Now, in store resolution) stops advancing here.
MaxClock == 2
\* How many requests are between their first step and their answer at a time.
MaxInFlight == 2
\* Largest document count for which calculateTotalPages is tabulated.
MaxTotalCount == 250

(***************************************************************************)
(* Characters and strings (package strings, strconv).                      *)
(***************************************************************************)
UpperChars ==
    <<"A", "B", "C", "D", "E", "F", "G", "H", "I", "J", "K", "L", "M",
      "N", "O", "P", "Q", "R", "S", "T", "U", "V", "W", "X", "Y", "Z">>

LowerChars ==
    <<"a", "b", "c", "d", "e", "f", "g", "h", "i", "j", "k", "l", "m",
      "n", "o", "p", "q", "r", "s", "t", "u", "v", "w", "x", "y", "z">>

DigitChars == <<"0", "1", "2", "3", "4", "5", "6", "7", "8", "9">>

\* The other characters of the model's inputs, with their byte values.
OtherChars ==
    {<<"\t", 9>>, <<" ", 32>>, <<"%", 37>>, <<"+", 43>>, <<",", 44>>, <<"-", 45>>,
     <<".", 46>>, <<"@", 64>>, <<"_", 95>>}

\* A value computed once and named, as := does.
With(x, F(_)) == F(x)

IndexIn(seq, c) == CHOOSE i \in 1..Len(seq) : seq[i] = c
InSeq(seq, c) == \E i \in 1..Len(seq) : seq[i] = c
Range(seq) == {seq[i] : i \in 1..Len(seq)}

\* The characters of the model.
Chars == Range(UpperChars) \cup Range(LowerChars) \cup Range(DigitChars)
         \cup {p[1] : p \in OtherChars} \cup {":", "$"}

\* The byte value of each character the store has to order.
OrdOf ==
    [c \in Chars |->
        IF InSeq(LowerChars, c) THEN 96 + IndexIn(LowerChars, c)
        ELSE IF InSeq(UpperChars, c) THEN 64 + IndexIn(UpperChars, c)
        ELSE IF InSeq(DigitChars, c) THEN 47 + IndexIn(DigitChars, c)
        ELSE IF c = ":" THEN 58
        ELSE IF c = "$" THEN 36
        ELSE (CHOOSE p \in OtherChars : p[1] = c)[2]]

Ord(c) == OrdOf[c]

\* unicode.ToLower on each character.
LowerOf ==
    [c \in Chars |-> IF InSeq(UpperChars, c) THEN LowerChars[IndexIn(UpperChars, c)] ELSE c]

IsSpace(c) == c \in {" ", "\t"}
IsUpper(c) == Ord(c) >= 65 /\ Ord(c) <= 90
IsLower(c) == Ord(c) >= 97 /\ Ord(c) <= 122
IsLetter(c) == IsUpper(c) \/ IsLower(c)
IsDigit(c) == Ord(c) >= 48 /\ Ord(c) <= 57

ToLowerChar(c) == LowerOf[c]

\* strings.ToLower
ToLower(s) == [i \in 1..Len(s) |-> ToLowerChar(s[i])]

RECURSIVE TrimLeft(_)
TrimLeft(s) ==
    IF s # <<>> /\ IsSpace(Head(s)) THEN TrimLeft(Tail(s)) ELSE s

RECURSIVE TrimRight(_)
TrimRight(s) ==
    IF s # <<>> /\ IsSpace(s[Len(s)]) THEN TrimRight(SubSeq(s, 1, Len(s) - 1)) ELSE s

\* strings.TrimSpace
TrimSpace(s) == TrimRight(TrimLeft(s))


\* strings.Contains
Contains(s, sub) ==
    \E i \in 0..(Len(s) - Len(sub)) : SubSeq(s, i + 1, i + Len(sub)) = sub

\* strings.Split(s, ","): the pieces between the separators, empty pieces kept.
RECURSIVE SplitFrom(_, _, _)
SplitFrom(s, sep, piece) ==
    IF s = <<>> THEN <<piece>>
    ELSE IF Head(s) = sep THEN <<piece>> \o SplitFrom(Tail(s), sep, <<>>)
    ELSE SplitFrom(Tail(s), sep, Append(piece, Head(s)))

Split(s, sep) == SplitFrom(s, sep, <<>>)

\* Byte-wise comparison of two strings (the store's simple collation): -1, 0 or 1.
RECURSIVE CompareStrings(_, _)
CompareStrings(a, b) ==
    IF a = <<>> /\ b = <<>> THEN 0
    ELSE IF a = <<>> THEN -1
    ELSE IF b = <<>> THEN 1
    ELSE IF Ord(Head(a)) < Ord(Head(b)) THEN -1
    ELSE IF Ord(Head(a)) > Ord(Head(b)) THEN 1
    ELSE CompareStrings(Tail(a), Tail(b))

(***************************************************************************)
(* 64-bit machine integers (Go int on amd64, int64).                       *)
(***************************************************************************)
\* One limb holds 16 bits.
Limb == 256 * 256
HalfLimb == 128 * 256

\* The int64 with the value n, for 0 <= n < 2^31.
I64(n) == <<n % Limb, n \div Limb, 0, 0>>

I64IsNeg(x) == x[4] >= HalfLimb
I64IsZero(x) == x = <<0, 0, 0, 0>>
I64IsPos(x) == ~I64IsNeg(x) /\ ~I64IsZero(x)

\* x fits the plain integers of the model (0 <= x < 2^31).
I64IsSmall(x) == x[3] = 0 /\ x[4] = 0 /\ x[2] < HalfLimb
I64Small(x) == x[2] * Limb + x[1]

\* The five-limb (unwrapped) result of x * m + a for limbs read as an unsigned
\* number and 0 <= m, a < 2^15: the fifth limb is what leaves the 64 bits.
MulAddWide(x, m, a) ==
    LET p1 == x[1] * m + a
        p2 == x[2] * m + (p1 \div Limb)
        p3 == x[3] * m + (p2 \div Limb)
        p4 == x[4] * m + (p3 \div Limb)
    IN  <<p1 % Limb, p2 % Limb, p3 % Limb, p4 % Limb, p4 \div Limb>>

\* x * m in 64 bits, wrapping (Go's * on int), for 0 <= m < 2^15.
I64MulSmall(x, m) == SubSeq(MulAddWide(x, m, 0), 1, 4)

\* x + y in 64 bits, wrapping.
I64Add(x, y) ==
    LET s1 == x[1] + y[1]
        s2 == x[2] + y[2] + (s1 \div Limb)
        s3 == x[3] + y[3] + (s2 \div Limb)
        s4 == x[4] + y[4] + (s3 \div Limb)
    IN  <<s1 % Limb, s2 % Limb, s3 % Limb, s4 % Limb>>

I64MinusOne == <<Limb - 1, Limb - 1, Limb - 1, Limb - 1>>

\* -x in 64 bits (two's complement).
I64Neg(x) ==
    I64Add(<<Limb - 1 - x[1], Limb - 1 - x[2], Limb - 1 - x[3], Limb - 1 - x[4]>>, I64(1))

\* strconv.Atoi: an optional sign and decimal digits; an error for anything
\* else and for a value outside the int64 range.
RECURSIVE ParseDigits(_, _)
ParseDigits(s, acc) ==
    IF s = <<>> THEN [ok |-> TRUE, mag |-> acc]
    ELSE IF ~IsDigit(Head(s)) THEN [ok |-> FALSE, mag |-> acc]
    ELSE With(MulAddWide(acc, 10, Ord(Head(s)) - 48), LAMBDA w :
            IF w[5] # 0 THEN [ok |-> FALSE, mag |-> acc]
            ELSE ParseDigits(Tail(s), SubSeq(w, 1, 4)))

Atoi(s) ==
    With(s # <<>> /\ Head(s) = "-", LAMBDA neg :
    With(IF s # <<>> /\ Head(s) \in {"-", "+"} THEN Tail(s) ELSE s, LAMBDA digits :
    With(ParseDigits(digits, I64(0)), LAMBDA p :
        IF digits = <<>> \/ ~p.ok THEN [ok |-> FALSE, val |-> I64(0)]
        ELSE IF ~neg /\ I64IsNeg(p.mag) THEN [ok |-> FALSE, val |-> I64(0)]
        ELSE IF neg /\ I64IsNeg(p.mag) /\ p.mag # <<0, 0, 0, HalfLimb>>
            THEN [ok |-> FALSE, val |-> I64(0)]
        ELSE [ok |-> TRUE, val |-> IF neg THEN I64Neg(p.mag) ELSE p.mag])))

\* The decimal text of an integer, as a client writes it.
RECURSIVE Decimal(_)
Decimal(n) ==
    IF n < 0 THEN <<"-">> \o Decimal(0 - n)
    ELSE IF n < 10 THEN <<DigitChars[n + 1]>>
    ELSE Decimal(n \div 10) \o <<DigitChars[(n % 10) + 1]>>

(***************************************************************************)
(* Error values.  A message is the text of err.Error(), which the handlers *)
(* search with strings.Contains.                                           *)
(***************************************************************************)
\* The nil error.
Nil == <<>>

ErrEmailTaken == <<"e", "m", "a", "i", "l", " ", "i", "s", " ", "a", "l", "r", "e", "a", "d", "y", " ", "i", "n", " ", "u", "s", "e">>
ErrUserNotFound == <<"u", "s", "e", "r", " ", "n", "o", "t", " ", "f", "o", "u", "n", "d">>
ErrInvalidEmail == <<"i", "n", "v", "a", "l", "i", "d", " ", "e", "m", "a", "i", "l", " ", "a", "d", "d", "r", "e", "s", "s">>
\* mongo.ErrNoDocuments
ErrNoDocuments == <<"m", "o", "n", "g", "o", ":", " ", "n", "o", " ", "d", "o", "c", "u", "m", "e", "n", "t", "s", " ", "i", "n", " ", "r", "e", "s", "u", "l", "t">>
\* The driver's error for a write that breaks a unique index: the store's
\* message names the collection, the index and the key that is there already.
ErrDuplicateKey(index, field, value) ==
    <<"w", "r", "i", "t", "e", " ", "e", "x", "c", "e", "p", "t", "i", "o", "n", ":", " ", "w", "r", "i", "t", "e", " ", "e", "r", "r", "o", "r", "s", ":", " ", "[", "E", "1", "1", "0", "0", "0", " ", "d", "u", "p", "l", "i", "c", "a", "t", "e", " ", "k", "e", "y", " ", "e", "r", "r", "o", "r", " ", "c", "o", "l", "l", "e", "c", "t", "i", "o", "n", ":", " ", "u", "s", "e", "r", "_", "m", "a", "n", "a", "g", "e", "m", "e", "n", "t", ".", "u", "s", "e", "r", "s", " ", "i", "n", "d", "e", "x", ":", " ">>
        \o index \o <<" ", "d", "u", "p", " ", "k", "e", "y", ":", " ", "{", " ">> \o field \o <<":", " ", "\"">> \o value \o <<"\"", " ", "}", "]">>
\* The store's answer to an insert that breaks the collection's validator.
ErrDocumentValidation == <<"D", "o", "c", "u", "m", "e", "n", "t", " ", "f", "a", "i", "l", "e", "d", " ", "v", "a", "l", "i", "d", "a", "t", "i", "o", "n">>
\* The store's answer to a negative skip.
ErrBadSkip == <<"s", "k", "i", "p", " ", "v", "a", "l", "u", "e", " ", "m", "u", "s", "t", " ", "b", "e", " ", "n", "o", "n", "-", "n", "e", "g", "a", "t", "i", "v", "e">>
\* The store's answers to a projection it does not accept: an empty field
\* name, a name that ends in ".", a name with an empty part or with a part
\* that starts with "$" and is none of the names it lets through, two names of
\* which one is the beginning of the other (the message goes on with the
\* name), and a positional name (one that ends in ".$") that is ".$", that is
\* not the only one or whose first part the filter does not name.
ErrBadProjection == <<"F", "i", "e", "l", "d", "P", "a", "t", "h", " ", "c", "a", "n", "n", "o", "t", " ", "b", "e", " ", "c", "o", "n", "s", "t", "r", "u", "c", "t", "e", "d", " ", "w", "i", "t", "h", " ", "e", "m", "p", "t", "y", " ", "s", "t", "r", "i", "n", "g">>
ErrPathEndsWithDot == <<"F", "i", "e", "l", "d", "P", "a", "t", "h", " ", "m", "u", "s", "t", " ", "n", "o", "t", " ", "e", "n", "d", " ", "w", "i", "t", "h", " ", "a", " ", "'", ".", "'", ".">>
ErrEmptyFieldName == <<"F", "i", "e", "l", "d", "P", "a", "t", "h", " ", "f", "i", "e", "l", "d", " ", "n", "a", "m", "e", "s", " ", "m", "a", "y", " ", "n", "o", "t", " ", "b", "e", " ", "e", "m", "p", "t", "y", " ", "s", "t", "r", "i", "n", "g", "s", ".">>
ErrDollarFieldName == <<"F", "i", "e", "l", "d", "P", "a", "t", "h", " ", "f", "i", "e", "l", "d", " ", "n", "a", "m", "e", "s", " ", "m", "a", "y", " ", "n", "o", "t", " ", "s", "t", "a", "r", "t", " ", "w", "i", "t", "h", " ", "'", "$", "'", ".", " ", "C", "o", "n", "s", "i", "d", "e", "r", " ", "u", "s", "i", "n", "g", " ", "$", "g", "e", "t", "F", "i", "e", "l", "d", " ", "o", "r", " ", "$", "s", "e", "t", "F", "i", "e", "l", "d", ".">>
ErrPathCollision == <<"P", "a", "t", "h", " ", "c", "o", "l", "l", "i", "s", "i", "o", "n", " ", "a", "t", " ">>
ErrRemainingPortion == <<" ", "r", "e", "m", "a", "i", "n", "i", "n", "g", " ", "p", "o", "r", "t", "i", "o", "n", " ">>
ErrManyPositional == <<"C", "a", "n", "n", "o", "t", " ", "s", "p", "e", "c", "i", "f", "y", " ", "m", "o", "r", "e", " ", "t", "h", "a", "n", " ", "o", "n", "e", " ", "p", "o", "s", "i", "t", "i", "o", "n", "a", "l", " ", "p", "r", "o", "j", "e", "c", "t", "i", "o", "n", " ", "p", "e", "r", " ", "q", "u", "e", "r", "y", ".">>
ErrPositionalNoMatch(name) ==
    <<"P", "o", "s", "i", "t", "i", "o", "n", "a", "l", " ", "p", "r", "o", "j", "e", "c", "t", "i", "o", "n", " ", "'">> \o name
        \o <<"'", " ", "d", "o", "e", "s", " ", "n", "o", "t", " ", "m", "a", "t", "c", "h", " ", "t", "h", "e", " ", "q", "u", "e", "r", "y", " ", "d", "o", "c", "u", "m", "e", "n", "t", ".">>
ErrProjectionInvalid(name) ==
    <<"P", "r", "o", "j", "e", "c", "t", "i", "o", "n", " ", "o", "n", " ", "f", "i", "e", "l", "d", " ">> \o name \o <<" ", "i", "s", " ", "i", "n", "v", "a", "l", "i", "d">>
\* The driver's error when the store cannot be reached in time.
ErrStoreDown == <<"c", "o", "n", "t", "e", "x", "t", " ", "d", "e", "a", "d", "l", "i", "n", "e", " ", "e", "x", "c", "e", "e", "d", "e", "d">>
\* The message of a request body that fails its binding tags.
ErrBinding == <<"F", "i", "e", "l", "d", " ", "v", "a", "l", "i", "d", "a", "t", "i", "o", "n", " ", "f", "a", "i", "l", "e", "d">>
\* The message of the list endpoint for a sort field outside validSortFields.
ErrInvalidSortField ==
    <<"I", "n", "v", "a", "l", "i", "d", " ", "s", "o", "r", "t", " ", "f", "i", "e", "l", "d", ".", " ", "V", "a", "l", "i", "d", " ", "o", "p", "t", "i", "o", "n", "s", ":", " ", "e", "m", "a", "i", "l", ",", " ", "c", "r", "e", "a", "t", "e", "d", "_", "a", "t", ",", " ", "u", "p", "d", "a", "t", "e", "d", "_", "a", "t", ",", " ", "f", "i", "r", "s", "t", "_", "n", "a", "m", "e", ",", " ", "l", "a", "s", "t", "_", "n", "a", "m", "e">>
MsgUserNotFound == <<"U", "s", "e", "r", " ", "n", "o", "t", " ", "f", "o", "u", "n", "d">>

(***************************************************************************)
(* Domain (internal/core/domain) and password hashing (pkg/security).      *)
(***************************************************************************)
\* time.Time{}: the zero time, which precedes every reading of the clock.
ZeroTime == 0

\* The zero value of domain.Profile: the names, and the national identification
\* number, which the collection keeps unique.  The address, the phone and the
\* birthdate are carried from the request to the store and back and take part
\* in nothing else; they are left out.
ZeroProfile == [first_name |-> <<>>, last_name |-> <<>>, nin |-> <<>>]

\* The zero value of domain.User.
ZeroUser ==
    [id |-> 0, email |-> <<>>, password_hash |-> <<>>, profile |-> ZeroProfile,
     created_at |-> ZeroTime, updated_at |-> ZeroTime]

\* bcrypt accepts passwords of at most 72 bytes.
BcryptMaxLen == 72

\* security.HashPassword: the hash is opaque; it is kept as a tagged password.
HashPassword(password) ==
    IF Len(password) > BcryptMaxLen
        THEN [err |-> <<"b", "c", "r", "y", "p", "t", ":", " ", "p", "a", "s", "s", "w", "o", "r", "d", " ", "l", "e", "n", "g", "t", "h", " ", "e", "x", "c", "e", "e", "d", "s", " ", "7", "2", " ", "b", "y", "t", "e", "s">>, hash |-> <<>>]
        ELSE [err |-> Nil, hash |-> <<"$">> \o password]

\* NewUser that keeps the letter casing of the email.
NewUser_KeepCase(email, passwordHash, profile, id, t1, t2) ==
    LET e == TrimSpace(email)
    IN  IF ~Contains(e, <<"@">>)
            THEN [err |-> ErrInvalidEmail, user |-> ZeroUser]
            ELSE [err |-> Nil,
                  user |-> [id |-> id, email |-> e, password_hash |-> passwordHash,
                            profile |-> profile, created_at |-> t1, updated_at |-> t2]]

\* NewUser that does not look for the "@".
NewUser_NoAtCheck(email, passwordHash, profile, id, t1, t2) ==
    [err |-> Nil,
     user |-> [id |-> id, email |-> TrimSpace(ToLower(email)),
               password_hash |-> passwordHash, profile |-> profile,
               created_at |-> t1, updated_at |-> t2]]

\* domain.NewUser, with the generated identifier and the two readings of the
\* clock (CreatedAt, UpdatedAt) as parameters.
NewUser(email, passwordHash, profile, id, t1, t2) ==
    LET e == TrimSpace(ToLower(email))
    IN  IF ~Contains(e, <<"@">>)
            THEN [err |-> ErrInvalidEmail, user |-> ZeroUser]
            ELSE [err |-> Nil,
                  user |-> [id |-> id, email |-> e, password_hash |-> passwordHash,
                            profile |-> profile, created_at |-> t1, updated_at |-> t2]]

(***************************************************************************)
(* The document store: collection "users" as set up by scripts/mongo-init. *)
(* A document is kept as a record of all the fields of the entity; a field *)
(* holding its zero value is a field the document does not have (every     *)
(* bson tag of the entity is omitempty).                                   *)
(***************************************************************************)
PathID == <<"_", "i", "d">>
PathEmail == <<"e", "m", "a", "i", "l">>
PathPasswordHash == <<"p", "a", "s", "s", "w", "o", "r", "d", "_", "h", "a", "s", "h">>
PathProfile == <<"p", "r", "o", "f", "i", "l", "e">>
PathFirstName == <<"p", "r", "o", "f", "i", "l", "e", ".", "f", "i", "r", "s", "t", "_", "n", "a", "m", "e">>
PathLastName == <<"p", "r", "o", "f", "i", "l", "e", ".", "l", "a", "s", "t", "_", "n", "a", "m", "e">>
PathNIN == <<"p", "r", "o", "f", "i", "l", "e", ".", "n", "i", "n">>
PathCreatedAt == <<"c", "r", "e", "a", "t", "e", "d", "_", "a", "t">>
PathUpdatedAt == <<"u", "p", "d", "a", "t", "e", "d", "_", "a", "t">>

IsString(path) ==
    path \in {PathEmail, PathPasswordHash, PathFirstName, PathLastName, PathNIN}
IsKnownPath(path) ==
    path \in {PathID, PathEmail, PathPasswordHash, PathFirstName, PathLastName, PathNIN,
              PathCreatedAt, PathUpdatedAt}

\* The value of a document at a field path; the zero value when absent.
FieldOf(doc, path) ==
    IF path = PathID THEN doc.id
    ELSE IF path = PathEmail THEN doc.email
    ELSE IF path = PathPasswordHash THEN doc.password_hash
    ELSE IF path = PathFirstName THEN doc.profile.first_name
    ELSE IF path = PathLastName THEN doc.profile.last_name
    ELSE IF path = PathNIN THEN doc.profile.nin
    ELSE IF path = PathCreatedAt THEN doc.created_at
    ELSE IF path = PathUpdatedAt THEN doc.updated_at
    ELSE <<>>

AllChars(s, Class(_)) == \A i \in 1..Len(s) : Class(s[i])
EmailLocalChar(c) == IsLetter(c) \/ IsDigit(c) \/ c \in {".", "_", "%", "+", "-"}
EmailDomainChar(c) == IsLetter(c) \/ IsDigit(c) \/ c \in {".", "-"}

\* The validator's pattern for email:
\* ^[a-zA-Z0-9._%+-]+@[a-zA-Z0-9.-]+\.[a-zA-Z]{2,}$
MatchesEmailPattern(s) ==
    \E i \in 2..Len(s) : \E j \in (i + 2)..(Len(s) - 2) :
        /\ s[i] = "@"
        /\ s[j] = "."
        /\ AllChars(SubSeq(s, 1, i - 1), EmailLocalChar)
        /\ AllChars(SubSeq(s, i + 1, j - 1), EmailDomainChar)
        /\ AllChars(SubSeq(s, j + 1, Len(s)), IsLetter)

\* The collection's $jsonSchema validator (validationAction: error).
SchemaValid(doc) ==
    /\ MatchesEmailPattern(doc.email)
    /\ doc.password_hash # <<>>
    /\ doc.profile.first_name # <<>>
    /\ doc.profile.last_name # <<>>
    /\ doc.created_at # ZeroTime
    /\ doc.updated_at # ZeroTime

\* The unique indexes of the collection, in the order the store writes their
\* keys: _id_, email_unique_idx and nin_unique_sparse_idx; the sparse index has
\* no entry for a document without the field (an empty NIN is not written, its
\* tag being omitempty).  `coll` holds the other documents.  The result is the
\* error of the first index the document breaks, Nil when it breaks none.
\* An identifier stands for the text generateUUID gives.
BreaksUniqueIndex(coll, doc) ==
    IF \E i \in 1..Len(coll) : coll[i].id = doc.id
        THEN ErrDuplicateKey(<<"_", "i", "d", "_">>, PathID, Decimal(doc.id))
    ELSE IF \E i \in 1..Len(coll) : coll[i].email = doc.email
        THEN ErrDuplicateKey(<<"e", "m", "a", "i", "l", "_", "u", "n", "i", "q", "u", "e", "_", "i", "d", "x">>, PathEmail, doc.email)
    ELSE IF doc.profile.nin # <<>> /\ \E i \in 1..Len(coll) : coll[i].profile.nin = doc.profile.nin
        THEN ErrDuplicateKey(<<"n", "i", "n", "_", "u", "n", "i", "q", "u", "e", "_", "s", "p", "a", "r", "s", "e", "_", "i", "d", "x">>, PathNIN, doc.profile.nin)
    ELSE Nil

\* The _id index alone.
BreaksIdIndex(coll, doc) ==
    IF \E i \in 1..Len(coll) : coll[i].id = doc.id
        THEN ErrDuplicateKey(<<"_", "i", "d", "_">>, PathID, Decimal(doc.id))
    ELSE Nil

\* InsertOne on a collection whose only unique index is _id.
InsertOne_IdIndexOnly(coll, doc) ==
    IF ~SchemaValid(doc) THEN [err |-> ErrDocumentValidation, coll |-> coll]
    ELSE IF BreaksIdIndex(coll, doc) # Nil
        THEN [err |-> BreaksIdIndex(coll, doc), coll |-> coll]
    ELSE [err |-> Nil, coll |-> Append(coll, doc)]

\* collection.InsertOne: the server checks the document against the validator
\* (validationLevel strict, validationAction error) before it writes it and
\* its index keys.
InsertOne(coll, doc) ==
    IF ~SchemaValid(doc) THEN [err |-> ErrDocumentValidation, coll |-> coll]
    ELSE IF BreaksUniqueIndex(coll, doc) # Nil
        THEN [err |-> BreaksUniqueIndex(coll, doc), coll |-> coll]
    ELSE [err |-> Nil, coll |-> Append(coll, doc)]

\* InsertOne on the collection scripts/mongo-init.js sets up.
InsertOne_WithEmailIndex(coll, doc) == InsertOne(coll, doc)

\* collection.InsertOne on a database scripts/mongo-init.js was not run on (the
\* program creates no collection, validator or index itself): the store
\* creates the collection on the first insert, with the _id index only.
UnindexedInsertOne(coll, doc) ==
    IF BreaksIdIndex(coll, doc) # Nil
        THEN [err |-> BreaksIdIndex(coll, doc), coll |-> coll]
    ELSE [err |-> Nil, coll |-> Append(coll, doc)]

\* A regular expression as the store (PCRE2) reads it.  Of the characters of
\* the model "." (any character), "$" (the end of the value) and "+" (one or
\* more of the element before it; "++" the same without giving characters
\* back) have a meaning of their own; every other one is a literal.  The other
\* operators of the syntax (\ ^ * ? ( ) [ ] { } |) are not among the characters
\* of the model.  The result is the sequence of the elements, or `ok` FALSE
\* where a "+" does not follow an element that can be repeated.
RECURSIVE ParseRegex(_, _)
ParseRegex(pattern, i) ==
    IF i > Len(pattern) THEN [ok |-> TRUE, items |-> <<>>]
    ELSE IF pattern[i] = "+" THEN [ok |-> FALSE, items |-> <<>>]
    ELSE IF pattern[i] = "$"
        THEN With(ParseRegex(pattern, i + 1), LAMBDA rest :
                [ok |-> rest.ok, items |-> <<[kind |-> "end", rep |-> "one"]>> \o rest.items])
    ELSE With(IF i + 2 <= Len(pattern) /\ pattern[i + 1] = "+" /\ pattern[i + 2] = "+"
                  THEN <<"possessive", 3>>
              ELSE IF i + 1 <= Len(pattern) /\ pattern[i + 1] = "+"
                  THEN <<"greedy", 2>>
              ELSE <<"one", 1>>, LAMBDA q :
         With(ParseRegex(pattern, i + q[2]), LAMBDA rest :
                [ok |-> rest.ok,
                 items |-> <<[kind |-> IF pattern[i] = "." THEN "any" ELSE "char",
                              char |-> pattern[i], rep |-> q[1]]>> \o rest.items]))

\* The store's answer to a $regex that is not a regular expression.
ErrBadRegex == <<"R", "e", "g", "u", "l", "a", "r", " ", "e", "x", "p", "r", "e", "s", "s", "i", "o", "n", " ", "i", "s", " ", "i", "n", "v", "a", "l", "i", "d", ":", " ", "q", "u", "a", "n", "t", "i", "f", "i", "e", "r", " ", "d", "o", "e", "s", " ", "n", "o", "t", " ", "f", "o", "l", "l", "o", "w", " ", "a", " ", "r", "e", "p", "e", "a", "t", "a", "b", "l", "e", " ", "i", "t", "e", "m">>

\* One element of a regular expression matches one character: "." any
\* character, a literal itself (in either case under option i).
AtomMatches(item, c, options) ==
    \/ item.kind = "any"
    \/ item.kind = "char" /\ item.char = c
    \/ item.kind = "char" /\ Contains(options, <<"i">>) /\ ToLowerChar(item.char) = ToLowerChar(c)

\* How many characters of the value from position pos on the element matches,
\* one after the other.
RECURSIVE RunLength(_, _, _, _)
RunLength(item, value, pos, options) ==
    IF pos > Len(value) \/ ~AtomMatches(item, value[pos], options) THEN 0
    ELSE 1 + RunLength(item, value, pos + 1, options)

\* The elements from the k-th on match the value from position pos on.
RECURSIVE MatchFrom(_, _, _, _, _)
MatchFrom(items, k, value, pos, options) ==
    IF k > Len(items) THEN TRUE
    ELSE IF items[k].kind = "end"
        THEN pos = Len(value) + 1 /\ MatchFrom(items, k + 1, value, pos, options)
    ELSE With(RunLength(items[k], value, pos, options), LAMBDA run :
        IF items[k].rep = "one"
            THEN run >= 1 /\ MatchFrom(items, k + 1, value, pos + 1, options)
        ELSE IF items[k].rep = "possessive"
            THEN run >= 1 /\ MatchFrom(items, k + 1, value, pos + run, options)
        ELSE \E n \in 1..run : MatchFrom(items, k + 1, value, pos + n, options))

\* {$regex: pattern, $options: options} on a string value: the pattern matches
\* somewhere in the value.
RegexMatches(pattern, options, value) ==
    With(ParseRegex(pattern, 1), LAMBDA parsed :
        /\ parsed.ok
        /\ \E pos \in 1..(Len(value) + 1) : MatchFrom(parsed.items, 1, value, pos, options))

\* A filter is bson.M{} (kind "all"), {path: value} (kind "eq") or
\* {$or: [{path: {$regex, $options}}, ...]} (kind "or").
MatchesFilter(doc, filter) ==
    IF filter.kind = "all" THEN TRUE
    ELSE IF filter.kind = "eq" THEN FieldOf(doc, filter.path) = filter.value
    ELSE \E k \in 1..Len(filter.clauses) :
            LET cl == filter.clauses[k]
            IN  /\ IsString(cl.path)
                /\ FieldOf(doc, cl.path) # <<>>
                /\ RegexMatches(cl.regex, cl.options, FieldOf(doc, cl.path))

\* The documents matching a filter, in natural order.
RECURSIVE MatchingDocs(_, _)
MatchingDocs(coll, filter) ==
    IF coll = <<>> THEN <<>>
    ELSE IF MatchesFilter(Head(coll), filter)
        THEN <<Head(coll)>> \o MatchingDocs(Tail(coll), filter)
        ELSE MatchingDocs(Tail(coll), filter)

\* The error of a filter the store does not accept: a clause whose $regex is
\* not a regular expression.
FilterError(filter) ==
    IF /\ filter.kind = "or"
       /\ \E k \in 1..Len(filter.clauses) : ~ParseRegex(filter.clauses[k].regex, 1).ok
        THEN ErrBadRegex ELSE Nil

\* collection.CountDocuments
CountDocuments(coll, filter) ==
    IF FilterError(filter) # Nil THEN [err |-> FilterError(filter), count |-> 0]
    ELSE [err |-> Nil, count |-> Len(MatchingDocs(coll, filter))]

\* collection.FindOne(...).Decode: the first match in natural order.
FindOne(coll, filter) ==
    With(MatchingDocs(coll, filter), LAMBDA m :
        IF m = <<>> THEN [err |-> ErrNoDocuments, user |-> ZeroUser]
        ELSE [err |-> Nil, user |-> m[1]])

\* A sequence without its i-th element.
RemoveAt(seq, i) == SubSeq(seq, 1, i - 1) \o SubSeq(seq, i + 1, Len(seq))

\* collection.DeleteOne: the first matching document is removed; `deleted` is
\* the DeletedCount of the result, 0 when no document matches.
DeleteOne(coll, filter) ==
    With({i \in 1..Len(coll) : MatchesFilter(coll[i], filter)}, LAMBDA hits :
        IF hits = {} THEN [err |-> Nil, coll |-> coll, deleted |-> 0]
        ELSE [err |-> Nil,
              coll |-> RemoveAt(coll, CHOOSE i \in hits : \A j \in hits : i <= j),
              deleted |-> 1])

\* The document {$set: user} writes for a domain.User: a string or time field
\* with the tag omitempty is left out when it holds its zero value; the profile,
\* a struct, is always written, with its own non-empty fields.  A field left
\* out keeps the value stored (`old`).
SetFields(old, user) ==
    [id |-> IF user.id # ZeroUser.id THEN user.id ELSE old.id,
     email |-> IF user.email # <<>> THEN user.email ELSE old.email,
     password_hash |-> IF user.password_hash # <<>> THEN user.password_hash
                       ELSE old.password_hash,
     profile |-> user.profile,
     created_at |-> IF user.created_at # ZeroTime THEN user.created_at ELSE old.created_at,
     updated_at |-> IF user.updated_at # ZeroTime THEN user.updated_at ELSE old.updated_at]

\* collection.UpdateOne(filter, {$set: user}) without upsert: the first match
\* is rewritten, under the validator and the unique indexes; `matched` is
\* the MatchedCount of the result.
UpdateOne(coll, filter, user) ==
    With({i \in 1..Len(coll) : MatchesFilter(coll[i], filter)}, LAMBDA hits :
        IF hits = {} THEN [err |-> Nil, coll |-> coll, matched |-> 0]
        ELSE With(CHOOSE i \in hits : \A j \in hits : i <= j, LAMBDA at :
             With(SetFields(coll[at], user), LAMBDA doc :
                IF ~SchemaValid(doc)
                    THEN [err |-> ErrDocumentValidation, coll |-> coll, matched |-> 1]
                ELSE IF BreaksUniqueIndex(RemoveAt(coll, at), doc) # Nil
                    THEN [err |-> BreaksUniqueIndex(RemoveAt(coll, at), doc),
                          coll |-> coll, matched |-> 1]
                ELSE [err |-> Nil, coll |-> [coll EXCEPT ![at] = doc], matched |-> 1])))

\* The order of two documents under a sort key <path, direction>: -1, 0 or 1.
CompareDocs(a, b, key) ==
    LET va == FieldOf(a, key.path)
        vb == FieldOf(b, key.path)
        c == IF IsString(key.path) THEN CompareStrings(va, vb)
             ELSE IF ~IsKnownPath(key.path) THEN 0
             ELSE IF va < vb THEN -1 ELSE IF va > vb THEN 1 ELSE 0
    IN  c * key.direction

IsSortedBy(docs, sort) ==
    \A i \in 1..(Len(docs) - 1) : CompareDocs(docs[i], docs[i + 1], sort[1]) <= 0

\* Every arrangement of the documents that the sort allows: the store does not
\* fix the order of documents with equal keys.
SortedOrders(docs, sort) ==
    LET n == Len(docs)
        perms == {f \in [1..n -> 1..n] : \A i, j \in 1..n : i # j => f[i] # f[j]}
    IN  {o \in {[i \in 1..n |-> docs[f[i]]] : f \in perms} : IsSortedBy(o, sort)}

\* cursor skip and limit.
SkipLimit(docs, skip, limit) ==
    IF ~I64IsSmall(skip) \/ I64Small(skip) >= Len(docs) THEN <<>>
    ELSE LET from == I64Small(skip) + 1
             upto == IF limit = 0 \/ from + limit - 1 > Len(docs)
                         THEN Len(docs) ELSE from + limit - 1
         IN  SubSeq(docs, from, upto)

\* The parts of a field path, between the dots.
PathParts(path) == Split(path, ".")

\* The first path leads to a document that holds the field of the second.
IsPathAbove(p, q) ==
    /\ Len(PathParts(p)) < Len(PathParts(q))
    /\ SubSeq(PathParts(q), 1, Len(PathParts(p))) = PathParts(p)

\* The field names with "$" in front that the store lets through: those of a
\* DBRef and of its own metadata.
AllowedDollarFields ==
    {<<"$", "i", "d">>, <<"$", "r", "e", "f">>, <<"$", "d", "b">>, <<"$", "s", "o", "r", "t", "K", "e", "y">>, <<"$", "r", "e", "c", "o", "r", "d", "I", "d">>}

\* The error of the store for a field path, Nil when it accepts it: the path
\* as a whole first, then its parts from the left.
FieldPathError(path) ==
    IF path = <<>> THEN ErrBadProjection
    ELSE IF path[Len(path)] = "." THEN ErrPathEndsWithDot
    ELSE With(PathParts(path), LAMBDA parts :
         With({k \in 1..Len(parts) :
                \/ parts[k] = <<>>
                \/ parts[k][1] = "$" /\ parts[k] \notin AllowedDollarFields}, LAMBDA bad :
            IF bad = {} THEN Nil
            ELSE IF parts[CHOOSE k \in bad : \A j \in bad : k <= j] = <<>>
                THEN ErrEmptyFieldName
            ELSE ErrDollarFieldName))

\* A name of the projection that ends in ".$" is the positional projection of
\* the path before it.
IsPositional(name) ==
    Len(name) >= 2 /\ SubSeq(name, Len(name) - 1, Len(name)) = <<".", "$">>

\* The path a name of the projection includes.
ProjectedPath(name) ==
    IF IsPositional(name) THEN SubSeq(name, 1, Len(name) - 2) ELSE name

\* The first parts of the paths a filter names.
FilterFields(filter) ==
    IF filter.kind = "all" THEN {}
    ELSE IF filter.kind = "eq" THEN {PathParts(filter.path)[1]}
    ELSE {PathParts(filter.clauses[k].path)[1] : k \in 1..Len(filter.clauses)}

\* The error of the store for one name of the projection by itself.  A
\* positional name is checked against the filter before its path is.
ProjectionNameError(name, filter) ==
    IF ~IsPositional(name) THEN FieldPathError(name)
    ELSE IF name = <<".", "$">> THEN ErrProjectionInvalid(name)
    ELSE IF PathParts(name)[1] \notin FilterFields(filter) THEN ErrPositionalNoMatch(name)
    ELSE FieldPathError(ProjectedPath(name))

\* The errors the store can answer a projection with; the empty set when it
\* accepts it.  The keys of the projection document reach the store in no
\* fixed order (bson.M is a map) and the store reads them one after the other,
\* so with several faulty names any one of them can be the one reported; a
\* second positional name, and a path that collides with one read before it,
\* are reported where they are read.
ProjectionErrors(projection, filter) ==
    With({q \in projection : ProjectionNameError(q, filter) = Nil}, LAMBDA good :
        {ProjectionNameError(q, filter) : q \in projection \ good}
        \cup {ErrManyPositional :
                q \in {r \in projection :
                        IsPositional(r) /\ \E p \in good : p # r /\ IsPositional(p)}}
        \cup {ErrPathCollision \o ProjectedPath(q) :
                q \in {r \in good :
                        \E p \in good :
                            \/ IsPathAbove(ProjectedPath(r), ProjectedPath(p))
                            \/ p # r /\ ProjectedPath(p) = ProjectedPath(r)}}
        \cup {ErrPathCollision \o ProjectedPath(q) \o ErrRemainingPortion
                    \o SubSeq(ProjectedPath(q), Len(PathParts(ProjectedPath(q))[1]) + 2,
                              Len(ProjectedPath(q))) :
                q \in {r \in good :
                        \E p \in good : IsPathAbove(ProjectedPath(p), ProjectedPath(r))}})

\* An inclusion projection applied to one document.  None of the fields of a
\* user holds an array, so a positional name gives the field as it is.
ProjectDoc(doc, projection) ==
    IF projection = {} THEN doc
    ELSE LET keep(path) == \E q \in projection : ProjectedPath(q) = path
             whole == keep(PathProfile)
         IN  [id |-> IF keep(PathID) THEN doc.id ELSE ZeroUser.id,
              email |-> IF keep(PathEmail) THEN doc.email ELSE <<>>,
              password_hash |-> IF keep(PathPasswordHash) THEN doc.password_hash ELSE <<>>,
              profile |->
                  [first_name |-> IF whole \/ keep(PathFirstName)
                                      THEN doc.profile.first_name ELSE <<>>,
                   last_name |-> IF whole \/ keep(PathLastName)
                                     THEN doc.profile.last_name ELSE <<>>,
                   nin |-> IF whole \/ keep(PathNIN) THEN doc.profile.nin ELSE <<>>],
              created_at |-> IF keep(PathCreatedAt) THEN doc.created_at ELSE ZeroTime,
              updated_at |-> IF keep(PathUpdatedAt) THEN doc.updated_at ELSE ZeroTime]

\* collection.Find with the cursor read to its end: the outcomes the store can
\* give, each an error or the documents of the page.  The store reads the
\* skip with the command, then the filter, then the projection.
Find(coll, filter, findOpts) ==
    IF I64IsNeg(findOpts.skip) THEN {[err |-> ErrBadSkip, docs |-> <<>>]}
    ELSE IF FilterError(filter) # Nil THEN {[err |-> FilterError(filter), docs |-> <<>>]}
    ELSE With(ProjectionErrors(findOpts.projection, filter), LAMBDA refused :
        IF refused # {} THEN {[err |-> e, docs |-> <<>>] : e \in refused}
        ELSE {[err |-> Nil,
               docs |-> LET page == SkipLimit(o, findOpts.skip, findOpts.limit)
                        IN  [i \in 1..Len(page) |-> ProjectDoc(page[i], findOpts.projection)]] :
                  o \in SortedOrders(MatchingDocs(coll, filter), findOpts.sort)})

(***************************************************************************)
(* Repository (internal/repository/user_repository.go).                    *)
(*                                                                         *)
(* A store call can fail for reasons outside the program (the deadline of  *)
(* the request, the connection): `fault` is the number of the store call   *)
(* of the request that fails so, 0 for none.  Every operator returns the   *)
(* store calls it issued (`ops`) next to its results.                      *)
(***************************************************************************)
DefaultPage == 1
DefaultPageSize == 10
MaxPageSize == 100
DefaultSortField == <<"c", "r", "e", "a", "t", "e", "d", "_", "a", "t">>
DefaultSortOrder == <<"a", "s", "c">>

\* A nil *ports.GetUsersOptions.
NilOptions == [nil |-> TRUE]

\* No *ports.GetUsersResult (nil).
NilResult == [nil |-> TRUE]

\* UserRepository.setDefaultOptions
setDefaultOptions(opts) ==
    IF opts = NilOptions
        THEN [Page |-> I64(1), PageSize |-> 10, Fields |-> <<>>, Search |-> <<>>,
              SortBy |-> <<"c", "r", "e", "a", "t", "e", "d", "_", "a", "t">>, Order |-> <<"a", "s", "c">>]
        ELSE [Page |-> IF ~I64IsPos(opts.Page) THEN I64(1) ELSE opts.Page,
              PageSize |-> IF opts.PageSize < 1 \/ opts.PageSize > 100
                               THEN 10 ELSE opts.PageSize,
              Fields |-> opts.Fields,
              Search |-> opts.Search,
              SortBy |-> IF opts.SortBy = <<>> THEN <<"c", "r", "e", "a", "t", "e", "d", "_", "a", "t">> ELSE opts.SortBy,
              Order |-> IF opts.Order = <<>> THEN <<"a", "s", "c">> ELSE opts.Order]

\* UserRepository.buildSearchFilter
buildSearchFilter(searchTerm) ==
    IF searchTerm = <<>> THEN [kind |-> "all"]
    ELSE [kind |-> "or",
          clauses |-> <<[path |-> PathEmail, regex |-> searchTerm, options |-> <<"i">>],
                        [path |-> PathFirstName, regex |-> searchTerm, options |-> <<"i">>],
                        [path |-> PathLastName, regex |-> searchTerm, options |-> <<"i">>]>>]

\* buildProjection that asks for the listed fields only.
buildProjection_AsListed(fields) == {fields[i] : i \in 1..Len(fields)}

\* UserRepository.buildProjection: the keys of the projection document (each
\* with the value 1); the empty set is bson.M{}.
buildProjection(fields) ==
    IF Len(fields) = 0 THEN {}
    ELSE {fields[i] : i \in 1..Len(fields)} \cup {PathID}

\* mapSortField that passes every name on as it is.
mapSortField_AsNamed(sortBy) == sortBy

\* UserRepository.mapSortField
mapSortField(sortBy) ==
    IF sortBy = <<"f", "i", "r", "s", "t", "_", "n", "a", "m", "e">> THEN PathFirstName
    ELSE IF sortBy = <<"l", "a", "s", "t", "_", "n", "a", "m", "e">> THEN PathLastName
    ELSE sortBy

\* UserRepository.buildSortOptions
buildSortOptions(sortBy, order) ==
    <<[path |-> mapSortField(sortBy), direction |-> IF order = <<"d", "e", "s", "c">> THEN -1 ELSE 1]>>

\* buildFindOptions that asks the store for one document more than the page size.
buildFindOptions_OneMore(opts) ==
    [skip |-> I64MulSmall(I64Add(opts.Page, I64MinusOne), opts.PageSize),
     limit |-> opts.PageSize + 1,
     projection |-> buildProjection(opts.Fields),
     sort |-> buildSortOptions(opts.SortBy, opts.Order)]

\* UserRepository.buildFindOptions
buildFindOptions(opts) ==
    [skip |-> I64MulSmall(I64Add(opts.Page, I64MinusOne), opts.PageSize),
     limit |-> opts.PageSize,
     projection |-> buildProjection(opts.Fields),
     sort |-> buildSortOptions(opts.SortBy, opts.Order)]

\* calculateTotalPages that rounds down.
calculateTotalPages_RoundDown(totalCount, pageSize) == totalCount \div pageSize

\* UserRepository.calculateTotalPages
calculateTotalPages(totalCount, pageSize) == (totalCount + pageSize - 1) \div pageSize

\* UserRepository.executeQuery: the find, then every document decoded.
executeQuery(coll, filter, findOpts, fault) ==
    IF fault THEN {[err |-> ErrStoreDown, users |-> <<>>]}
    ELSE {[err |-> f.err, users |-> f.docs] : f \in Find(coll, filter, findOpts)}

\* GetUsers that goes on to the find with a count of 0 when the count fails.
GetUsersCount_IgnoreError(coll, opts0, fault) ==
    With(setDefaultOptions(opts0), LAMBDA opts :
    With(buildSearchFilter(opts.Search), LAMBDA filter :
    With(CountDocuments(coll, filter), LAMBDA total :
        [op |-> "GetUsers", pc |-> "find", opts |-> opts, filter |-> filter,
         findOpts |-> buildFindOptions(opts),
         totalCount |-> IF fault = 1 \/ total.err # Nil THEN 0 ELSE total.count,
         countedOn |-> coll, fault |-> fault,
         ops |-> <<[op |-> "CountDocuments", filter |-> filter]>>])))

\* UserRepository.GetUsers up to the count: the call as it goes on.  The count
\* and the find are two calls of the store and other requests are served
\* between them.  `countedOn` keeps the collection the count was taken on, for
\* the properties; `fault` tells which store call of the request fails, `ops`
\* the store calls issued so far.
GetUsersCount(coll, opts0, fault) ==
    With(setDefaultOptions(opts0), LAMBDA opts :
    With(buildSearchFilter(opts.Search), LAMBDA filter :
    With(CountDocuments(coll, filter), LAMBDA total :
    With(<<[op |-> "CountDocuments", filter |-> filter]>>, LAMBDA issued :
        IF fault = 1
            THEN [op |-> "GetUsers", pc |-> "done", opts |-> opts, filter |-> filter,
                  countedOn |-> coll, fault |-> fault, ops |-> issued,
                  err |-> ErrStoreDown, result |-> NilResult]
        ELSE IF total.err # Nil
            THEN [op |-> "GetUsers", pc |-> "done", opts |-> opts, filter |-> filter,
                  countedOn |-> coll, fault |-> fault, ops |-> issued,
                  err |-> total.err, result |-> NilResult]
        ELSE [op |-> "GetUsers", pc |-> "find", opts |-> opts, filter |-> filter,
              findOpts |-> buildFindOptions(opts),
              totalCount |-> total.count,
              countedOn |-> coll, fault |-> fault, ops |-> issued]))))

\* What GetUsers returns after its find: nil and the error, or the result with
\* the count taken before.
GetUsersResult(c, q, totalCount) ==
    IF q.err # Nil THEN NilResult
    ELSE [Users |-> q.users,
          TotalCount |-> totalCount,
          Page |-> c.opts.Page,
          PageSize |-> c.opts.PageSize,
          TotalPages |-> calculateTotalPages(totalCount, c.opts.PageSize)]

\* GetUsers after the find that counts again on the collection of the find.
GetUsersFind_Recount(coll, c) ==
    {[op |-> "GetUsers", pc |-> "done", opts |-> c.opts, filter |-> c.filter,
      countedOn |-> c.countedOn, foundOn |-> coll, fault |-> c.fault,
      ops |-> c.ops \o <<[op |-> "Find", filter |-> c.filter, findOpts |-> c.findOpts]>>,
      err |-> q.err,
      result |-> GetUsersResult(c, q, CountDocuments(coll, c.filter).count)] :
        q \in executeQuery(coll, c.filter, c.findOpts, c.fault = 2)}

\* UserRepository.GetUsers from the find on: the outcomes.  `foundOn` keeps
\* the collection the find ran on.
GetUsersFind(coll, c) ==
    {[op |-> "GetUsers", pc |-> "done", opts |-> c.opts, filter |-> c.filter,
      countedOn |-> c.countedOn, foundOn |-> coll, fault |-> c.fault,
      ops |-> c.ops \o <<[op |-> "Find", filter |-> c.filter, findOpts |-> c.findOpts]>>,
      err |-> q.err,
      result |-> GetUsersResult(c, q, c.totalCount)] :
        q \in executeQuery(coll, c.filter, c.findOpts, c.fault = 2)}

\* UserRepository.GetUsers: the outcomes of a request whose count finds the
\* collection `counted` and whose find finds the collection `coll`.
RepoGetUsers(counted, coll, opts0, fault) ==
    With(GetUsersCount(counted, opts0, fault), LAMBDA c :
        IF c.pc = "done" THEN {c} ELSE GetUsersFind(coll, c))

\* No *domain.User (nil).
NilUser == [nil |-> TRUE]

\* UserRepository.GetUserByEmail
RepoGetUserByEmail(coll, email, fault) ==
    With([kind |-> "eq", path |-> PathEmail, value |-> email], LAMBDA filter :
    With(FindOne(coll, filter), LAMBDA r :
    With(<<[op |-> "FindOne", filter |-> filter]>>, LAMBDA op :
        IF fault THEN [err |-> ErrStoreDown, user |-> NilUser, ops |-> op]
        ELSE IF r.err = ErrNoDocuments THEN [err |-> Nil, user |-> NilUser, ops |-> op]
        ELSE IF r.err # Nil THEN [err |-> r.err, user |-> NilUser, ops |-> op]
        ELSE [err |-> Nil, user |-> r.user, ops |-> op])))

\* UserRepository.GetUserByID
RepoGetUserByID(coll, id, fault) ==
    With([kind |-> "eq", path |-> PathID, value |-> id], LAMBDA filter :
    With(FindOne(coll, filter), LAMBDA r :
    With(<<[op |-> "FindOne", filter |-> filter]>>, LAMBDA op :
        IF fault THEN [err |-> ErrStoreDown, user |-> NilUser, ops |-> op]
        ELSE IF r.err = ErrNoDocuments THEN [err |-> Nil, user |-> NilUser, ops |-> op]
        ELSE IF r.err # Nil THEN [err |-> r.err, user |-> NilUser, ops |-> op]
        ELSE [err |-> Nil, user |-> r.user, ops |-> op])))

\* UserRepository.CreateUser
RepoCreateUser(coll, user, fault) ==
    With(InsertOne(coll, user), LAMBDA r :
    With(<<[op |-> "InsertOne", doc |-> user]>>, LAMBDA op :
        IF fault THEN [err |-> ErrStoreDown, coll |-> coll, ops |-> op]
        ELSE [err |-> r.err, coll |-> r.coll, ops |-> op]))

\* DeleteUser that reports a user that was not there.
RepoDeleteUser_MustExist(coll, id, fault) ==
    With(DeleteOne(coll, [kind |-> "eq", path |-> PathID, value |-> id]), LAMBDA r :
        [err |-> IF fault THEN ErrStoreDown
                 ELSE IF r.deleted = 0 THEN ErrUserNotFound ELSE Nil,
         coll |-> IF fault THEN coll ELSE r.coll,
         ops |-> <<[op |-> "DeleteOne",
                    filter |-> [kind |-> "eq", path |-> PathID, value |-> id],
                    deleted |-> IF fault THEN 0 ELSE r.deleted]>>])

\* UserRepository.DeleteUser: the result of DeleteOne (its DeletedCount) is
\* dropped, only the error is returned.
RepoDeleteUser(coll, id, fault) ==
    With([kind |-> "eq", path |-> PathID, value |-> id], LAMBDA filter :
    With(DeleteOne(coll, filter), LAMBDA r :
        IF fault
            THEN [err |-> ErrStoreDown, coll |-> coll,
                  ops |-> <<[op |-> "DeleteOne", filter |-> filter, deleted |-> 0]>>]
            ELSE [err |-> r.err, coll |-> r.coll,
                  ops |-> <<[op |-> "DeleteOne", filter |-> filter,
                             deleted |-> r.deleted]>>]))

\* UserRepository.UpdateUser up to the store call: the caller's user with the
\* reading of the clock as UpdatedAt.
StampUser(user, t) == [user EXCEPT !.updated_at = t]

\* UserRepository.UpdateUser from the store call on; `stamped` is the caller's
\* user as the call leaves it.
UpdateStamped(coll, stamped, fault) ==
    With([kind |-> "eq", path |-> PathID, value |-> stamped.id], LAMBDA filter :
    With(UpdateOne(coll, filter, stamped), LAMBDA r :
        IF fault THEN [err |-> ErrStoreDown, coll |-> coll, user |-> stamped]
        ELSE [err |-> r.err, coll |-> r.coll, user |-> stamped]))

\* UserRepository.UpdateUser; t is the reading of the clock.
RepoUpdateUser(coll, user, t, fault) == UpdateStamped(coll, StampUser(user, t), fault)

(***************************************************************************)
(* Use case (internal/core/usecase).                                       *)
(***************************************************************************)
\* UserUseCase.Register up to the existence check: the call as it goes on.  The
\* error of the lookup is dropped, the user it returns is all that is looked
\* at.  `checkedOn` keeps the collection the check ran on, for the properties;
\* `fault` tells which store call of the request fails, `ops` the store calls
\* issued so far.
RegisterCheck(coll, email, password, profile, fault) ==
    With(RepoGetUserByEmail(coll, email, fault = 1), LAMBDA found :
        IF found.user # NilUser
            THEN [op |-> "Register", email |-> email, password |-> password,
                  profile |-> profile, pc |-> "done", found |-> TRUE,
                  checkedOn |-> coll, fault |-> fault, ops |-> found.ops,
                  user |-> NilUser, err |-> ErrEmailTaken]
            ELSE [op |-> "Register", email |-> email, password |-> password,
                  profile |-> profile, pc |-> "make", found |-> FALSE,
                  checkedOn |-> coll, fault |-> fault, ops |-> found.ops,
                  user |-> NilUser, err |-> Nil])

\* UserUseCase.Register from the check to the insert: the hash and the new
\* user, with the identifier and the readings of the clock NewUser draws.
RegisterMake(c, id, t1, t2) ==
    With(HashPassword(c.password), LAMBDA hashed :
        IF hashed.err # Nil THEN [c EXCEPT !.pc = "done", !.err = hashed.err]
        ELSE With(NewUser(c.email, hashed.hash, c.profile, id, t1, t2), LAMBDA made :
        IF made.err # Nil THEN [c EXCEPT !.pc = "done", !.err = made.err]
        ELSE [c EXCEPT !.pc = "insert", !.user = made.user]))

\* The insert of Register that looks the email up once more at the insert, as
\* one step with it.
RegisterCreate_Recheck(coll, c, indexed) ==
    IF \E i \in 1..Len(coll) : coll[i].email = c.user.email
        THEN [err |-> ErrEmailTaken, coll |-> coll, ops |-> <<>>]
        ELSE [err |-> Nil, coll |-> Append(coll, c.user),
              ops |-> <<[op |-> "InsertOne", doc |-> c.user]>>]

\* The insert of Register followed by the lookup of the email.
RegisterCreate_CheckAfter(coll, c, indexed) ==
    With(RepoCreateUser(coll, c.user, c.fault = 2), LAMBDA created :
    With(RepoGetUserByEmail(created.coll, c.user.email, FALSE), LAMBDA found :
        [err |-> IF found.user # NilUser THEN ErrEmailTaken ELSE created.err,
         coll |-> created.coll,
         ops |-> created.ops \o found.ops]))

\* UserUseCase.Register at the insert.  `indexed` tells whether the collection
\* is the one scripts/mongo-init.js sets up.  A store call that fails leaves
\* the collection as it is, whatever its indexes.
RegisterCreate(coll, c, indexed) ==
    IF indexed
        THEN With(RepoCreateUser(coll, c.user, c.fault = 2), LAMBDA created :
                [err |-> created.err, coll |-> created.coll, ops |-> created.ops])
        ELSE With(UnindexedInsertOne(coll, c.user), LAMBDA created :
                IF c.fault = 2
                    THEN [err |-> ErrStoreDown, coll |-> coll,
                          ops |-> <<[op |-> "InsertOne", doc |-> c.user]>>]
                    ELSE [err |-> created.err, coll |-> created.coll,
                          ops |-> <<[op |-> "InsertOne", doc |-> c.user]>>])

\* UserUseCase.GetUsers
UCGetUsers(counted, coll, opts, fault) == RepoGetUsers(counted, coll, opts, fault)

\* UserUseCase.GetUserByEmail
UCGetUserByEmail(coll, email, fault) ==
    With(RepoGetUserByEmail(coll, email, fault), LAMBDA r :
        IF r.err # Nil THEN [err |-> r.err, user |-> NilUser, ops |-> r.ops]
        ELSE IF r.user = NilUser THEN [err |-> ErrUserNotFound, user |-> NilUser, ops |-> r.ops]
        ELSE [err |-> Nil, user |-> r.user, ops |-> r.ops])

\* UserUseCase.GetUserByID
UCGetUserByID(coll, id, fault) ==
    With(RepoGetUserByID(coll, id, fault), LAMBDA r :
        IF r.err # Nil THEN [err |-> ErrUserNotFound, user |-> NilUser, ops |-> r.ops]
        ELSE [err |-> Nil, user |-> r.user, ops |-> r.ops])

\* UserUseCase.UpdateUser
UCUpdateUser(coll, user, t, fault) == RepoUpdateUser(coll, user, t, fault)

\* UserUseCase.DeleteUser
UCDeleteUser(coll, id, fault) == RepoDeleteUser(coll, id, fault)

(***************************************************************************)
(* HTTP handlers (internal/adapters/handler/http).  A response is the      *)
(* status and the JSON body; `uc` is what the use case returned to the     *)
(* handler.                                                                *)
(***************************************************************************)
StatusOK == 200
StatusCreated == 201
StatusNoContent == 204
StatusBadRequest == 400
StatusNotFound == 404
StatusConflict == 409
StatusInternalServerError == 500

\* Valid sort fields to prevent injection attacks
validSortFields ==
    {<<"e", "m", "a", "i", "l">>, <<"c", "r", "e", "a", "t", "e", "d", "_", "a", "t">>, <<"u", "p", "d", "a", "t", "e", "d", "_", "a", "t">>, <<"f", "i", "r", "s", "t", "_", "n", "a", "m", "e">>, <<"l", "a", "s", "t", "_", "n", "a", "m", "e">>}

\* The JSON null, and the value of `uc` when the use case was not called.
JSONNull == [null |-> TRUE]
NotCalled == [called |-> FALSE]

\* The JSON form of a user with the password hash among its keys.
UserJSON_WithHash(u) ==
    [id |-> u.id, email |-> u.email, password_hash |-> u.password_hash,
     profile |-> u.profile, created_at |-> u.created_at, updated_at |-> u.updated_at]

\* The JSON form of a domain.User: the password hash has the tag json:"-".
UserJSON(u) ==
    [id |-> u.id, email |-> u.email, profile |-> u.profile,
     created_at |-> u.created_at, updated_at |-> u.updated_at]

\* The JSON form of a ports.GetUsersResult.
ResultJSON(r) ==
    [users |-> [i \in 1..Len(r.Users) |-> UserJSON(r.Users[i])],
     total_count |-> r.TotalCount, page |-> r.Page, page_size |-> r.PageSize,
     total_pages |-> r.TotalPages]

ErrorResponse(msg) == [error |-> msg]

\* The binding tag "email" is the validator's regular expression for an
\* address.  Its local part is one or more runs of these characters with one
\* dot between two runs (the quoted form and the characters outside ASCII are
\* not among the characters of the model).
EmailAtomChar(c) ==
    \/ IsLetter(c)
    \/ IsDigit(c)
    \/ c \in {"!", "#", "$", "%", "&", "*", "+", "-", "/", "=", "?", "^", "_",
              "{", "|", "}", "~"}

IsEmailLocalPart(s) ==
    /\ s # <<>>
    /\ s[1] # "."
    /\ s[Len(s)] # "."
    /\ \A i \in 1..Len(s) : EmailAtomChar(s[i]) \/ s[i] = "."
    /\ \A i \in 1..(Len(s) - 1) : ~(s[i] = "." /\ s[i + 1] = ".")

\* A label of the domain begins and ends with a letter or a digit and has
\* letters, digits, "-", "." and "~" between; the last label begins and ends
\* with a letter.
EmailLabelChar(c) == IsLetter(c) \/ IsDigit(c) \/ c \in {"-", ".", "~"}

IsEmailLabel(s) ==
    /\ s # <<>>
    /\ IsLetter(s[1]) \/ IsDigit(s[1])
    /\ IsLetter(s[Len(s)]) \/ IsDigit(s[Len(s)])
    /\ \A i \in 1..Len(s) : EmailLabelChar(s[i])

IsEmailLastLabel(s) ==
    /\ s # <<>>
    /\ IsLetter(s[1])
    /\ IsLetter(s[Len(s)])
    /\ \A i \in 1..Len(s) : EmailLabelChar(s[i])

\* The domain: one or more labels, each followed by a dot, then the last label
\* and possibly one more dot.
IsEmailDomain(d) ==
    \E n \in {Len(d)} \cup (IF d # <<>> /\ d[Len(d)] = "." THEN {Len(d) - 1} ELSE {}) :
        \E j \in 2..(n - 1) :
            /\ d[j] = "."
            /\ IsEmailLabel(SubSeq(d, 1, j - 1))
            /\ IsEmailLastLabel(SubSeq(d, j + 1, n))

IsEmailFormat(s) ==
    \E i \in 2..(Len(s) - 1) :
        /\ s[i] = "@"
        /\ IsEmailLocalPart(SubSeq(s, 1, i - 1))
        /\ IsEmailDomain(SubSeq(s, i + 1, Len(s)))

MinPasswordLen == 6

\* c.ShouldBindJSON(&req) for RegisterRequest: email `required,email`,
\* password `required,min=6`, profile `required`.
ShouldBindJSON(body) ==
    IF body.email # <<>> /\ IsEmailFormat(body.email) /\ Len(body.password) >= MinPasswordLen
        THEN Nil ELSE ErrBinding

\* UserHandler.Register from the return of the use case on.
HandlerRegisterAnswer(err) ==
    IF err # Nil
        THEN [status |-> IF Contains(err, <<"a", "l", "r", "e", "a", "d", "y", " ", "i", "n", " ", "u", "s", "e">>)
                             THEN StatusConflict ELSE StatusBadRequest,
              body |-> ErrorResponse(err),
              uc |-> [err |-> err]]
        ELSE [status |-> StatusCreated,
              body |-> [message |-> <<"U", "s", "e", "r", " ", "r", "e", "g", "i", "s", "t", "e", "r", "e", "d", " ", "s", "u", "c", "c", "e", "s", "s", "f", "u", "l", "l", "y">>],
              uc |-> [err |-> Nil]]

\* UserHandler.GetUserByID
HandlerGetUserByID(coll, idParam, fault) ==
    With(UCGetUserByID(coll, idParam, fault), LAMBDA r :
    With([err |-> r.err, user |-> r.user], LAMBDA uc :
        IF r.err # Nil
            THEN IF Contains(r.err, <<"n", "o", "t", " ", "f", "o", "u", "n", "d">>)
                     THEN [status |-> StatusNotFound, body |-> ErrorResponse(MsgUserNotFound),
                           uc |-> uc, ops |-> r.ops]
                     ELSE [status |-> StatusInternalServerError,
                           body |-> ErrorResponse(r.err), uc |-> uc, ops |-> r.ops]
            ELSE [status |-> StatusOK,
                  body |-> IF r.user = NilUser THEN JSONNull ELSE UserJSON(r.user),
                  uc |-> uc, ops |-> r.ops]))

\* UserHandler.DeleteUser
HandlerDeleteUser(coll, idParam, fault) ==
    With(UCDeleteUser(coll, idParam, fault), LAMBDA r :
        IF r.err # Nil
            THEN IF Contains(r.err, <<"n", "o", "t", " ", "f", "o", "u", "n", "d">>)
                     THEN [status |-> StatusNotFound, body |-> ErrorResponse(MsgUserNotFound),
                           uc |-> [err |-> r.err], coll |-> r.coll, ops |-> r.ops]
                     ELSE [status |-> StatusInternalServerError,
                           body |-> ErrorResponse(r.err),
                           uc |-> [err |-> r.err], coll |-> r.coll, ops |-> r.ops]
            ELSE [status |-> StatusNoContent, body |-> JSONNull,
                  uc |-> [err |-> Nil], coll |-> r.coll, ops |-> r.ops])

\* parsePaginationParams that takes every number it can read.
parsePaginationParams_AnyNumber(query) ==
    With(Atoi(query.page), LAMBDA page :
    With(Atoi(query.page_size), LAMBDA pageSize :
        [Page |-> IF query.page # <<>> /\ page.ok THEN page.val ELSE I64(DefaultPage),
         PageSize |-> IF query.page_size # <<>> /\ pageSize.ok /\ I64IsSmall(pageSize.val)
                          THEN I64Small(pageSize.val) ELSE DefaultPageSize]))

\* parsePaginationParams that cuts a page size above the maximum down to it.
parsePaginationParams_Clamp(query) ==
    With(Atoi(query.page), LAMBDA page :
    With(Atoi(query.page_size), LAMBDA pageSize :
        [Page |-> IF query.page # <<>> /\ page.ok /\ I64IsPos(page.val)
                      THEN page.val ELSE I64(DefaultPage),
         PageSize |-> IF query.page_size # <<>> /\ pageSize.ok /\ I64IsPos(pageSize.val)
                          THEN IF I64IsSmall(pageSize.val)
                                    /\ I64Small(pageSize.val) <= MaxPageSize
                                   THEN I64Small(pageSize.val) ELSE MaxPageSize
                          ELSE DefaultPageSize]))

\* UserHandler.parsePaginationParams; c.Query gives "" for a missing parameter.
parsePaginationParams(query) ==
    With(Atoi(query.page), LAMBDA page :
    With(Atoi(query.page_size), LAMBDA pageSize :
        [Page |-> IF query.page # <<>> /\ page.ok /\ I64IsPos(page.val)
                      THEN page.val ELSE I64(DefaultPage),
         PageSize |-> IF /\ query.page_size # <<>>
                         /\ pageSize.ok
                         /\ I64IsPos(pageSize.val)
                         /\ I64IsSmall(pageSize.val)
                         /\ I64Small(pageSize.val) <= MaxPageSize
                          THEN I64Small(pageSize.val) ELSE DefaultPageSize]))

\* parseFilterParams that compares the order as it is written.
parseFilterParams_OrderAsWritten(query) ==
    LET fields == IF query.fields # <<>>
                      THEN LET parts == Split(query.fields, ",")
                           IN  [i \in 1..Len(parts) |-> TrimSpace(parts[i])]
                      ELSE <<>>
        sortBy == TrimSpace(query.sort)
        order == TrimSpace(query.order)
    IN  IF sortBy # <<>> /\ sortBy \notin validSortFields
            THEN [err |-> ErrorResponse(ErrInvalidSortField), params |-> NotCalled]
            ELSE [err |-> Nil,
                  params |-> [Fields |-> fields,
                              Search |-> TrimSpace(query.search),
                              SortBy |-> IF sortBy # <<>> THEN sortBy ELSE DefaultSortField,
                              Order |-> IF order # <<>> /\ order \in {<<"a", "s", "c">>, <<"d", "e", "s", "c">>}
                                            THEN order ELSE DefaultSortOrder]]

\* parseFilterParams that looks the sort field up without regard to case.
parseFilterParams_AnyCase(query) ==
    LET fields == IF query.fields # <<>>
                      THEN LET parts == Split(query.fields, ",")
                           IN  [i \in 1..Len(parts) |-> TrimSpace(parts[i])]
                      ELSE <<>>
        sortBy == ToLower(TrimSpace(query.sort))
        order == ToLower(TrimSpace(query.order))
    IN  IF sortBy # <<>> /\ sortBy \notin validSortFields
            THEN [err |-> ErrorResponse(ErrInvalidSortField), params |-> NotCalled]
            ELSE [err |-> Nil,
                  params |-> [Fields |-> fields,
                              Search |-> TrimSpace(query.search),
                              SortBy |-> IF sortBy # <<>> THEN sortBy ELSE DefaultSortField,
                              Order |-> IF order # <<>> /\ order \in {<<"a", "s", "c">>, <<"d", "e", "s", "c">>}
                                            THEN order ELSE DefaultSortOrder]]

\* UserHandler.parseFilterParams
parseFilterParams(query) ==
    LET fields == IF query.fields # <<>>
                      THEN LET parts == Split(query.fields, ",")
                           IN  [i \in 1..Len(parts) |-> TrimSpace(parts[i])]
                      ELSE <<>>
        sortBy == TrimSpace(query.sort)
        order == ToLower(TrimSpace(query.order))
    IN  IF sortBy # <<>> /\ sortBy \notin validSortFields
            THEN [err |-> ErrorResponse(ErrInvalidSortField), params |-> NotCalled]
            ELSE [err |-> Nil,
                  params |-> [Fields |-> fields,
                              Search |-> TrimSpace(query.search),
                              SortBy |-> IF sortBy # <<>> THEN sortBy ELSE DefaultSortField,
                              Order |-> IF order # <<>> /\ order \in {<<"a", "s", "c">>, <<"d", "e", "s", "c">>}
                                            THEN order ELSE DefaultSortOrder]]

\* UserHandler.buildUserFilterOptions
buildUserFilterOptions(pagination, filter) ==
    [Page |-> pagination.Page, PageSize |-> pagination.PageSize, Fields |-> filter.Fields,
     Search |-> filter.Search, SortBy |-> filter.SortBy, Order |-> filter.Order]

\* UserHandler.GetUsers from the return of the use case on; r is what the use
\* case returned.
HandlerGetUsersAnswer(r) ==
    IF r.err # Nil
        THEN [status |-> StatusInternalServerError, body |-> ErrorResponse(r.err),
              uc |-> [err |-> r.err, result |-> r.result]]
        ELSE [status |-> StatusOK, body |-> ResultJSON(r.result),
              uc |-> [err |-> Nil, result |-> r.result]]

\* UserHandler.GetUsers: the outcomes of a request whose count finds the
\* collection `counted` and whose find finds the collection `coll`.
HandlerGetUsers(counted, coll, query, fault) ==
    LET pagination == parsePaginationParams(query)
        parsed == parseFilterParams(query)
        options == buildUserFilterOptions(pagination, parsed.params)
    IN  IF parsed.err # Nil
            THEN {[status |-> StatusBadRequest, body |-> parsed.err,
                   uc |-> NotCalled, ops |-> <<>>]}
            ELSE {With(HandlerGetUsersAnswer(r), LAMBDA answer :
                        [status |-> answer.status, body |-> answer.body,
                         uc |-> answer.uc, ops |-> r.ops]) :
                  r \in UCGetUsers(counted, coll, options, fault)}

(***************************************************************************)
(* Requests of the model.                                                  *)
(***************************************************************************)
\* Emails submitted to Register: three addresses, one of them also in another
\* letter casing and with surrounding blanks, and one without "@".
RawEmails ==
    {<<"a", "@", "x", ".", "i", "o">>, <<"A", "@", "X", ".", "i", "o">>, <<" ", "a", "@", "x", ".", "i", "o", " ">>,
     <<"b", "@", "x", ".", "i", "o">>, <<"c", "@", "x", ".", "i", "o">>, <<"a", "x", ".", "i", "o">>}

\* Emails posted besides: one that begins and one that ends with a dot.
DottedEmails == {<<".", "a", "@", "x", ".", "i", "o">>, <<"a", "@", "x", ".", "i", "o", ".">>}

RawPasswords == {<<"s", "e", "c", "r", "e", "t">>, <<"p", "w">>}

\* The profiles: one without a national identification number, one with (a
\* text, as the schema asks of it), and the empty one.
RawProfiles ==
    {[first_name |-> <<"J", "o">>, last_name |-> <<"L", "i">>, nin |-> <<>>],
     [first_name |-> <<"a", "l">>, last_name |-> <<"L", "i">>, nin |-> <<"a", "l", "r", "e", "a", "d", "y", " ", "i", "n", " ", "u", "s", "e">>],
     ZeroProfile}

PlainProfile == [first_name |-> <<"J", "o">>, last_name |-> <<"L", "i">>, nin |-> <<>>]

\* The body with the first address, password and profile.
PlainBody ==
    [email |-> <<"a", "@", "x", ".", "i", "o">>, password |-> <<"s", "e", "c", "r", "e", "t">>,
     profile |-> PlainProfile]

\* The bodies posted to the register endpoint: every email with the first
\* password and the first profile; the first email with every password, a
\* second address with every profile and a third with the second profile.
RegisterBodies ==
    [email : (RawEmails \ {<<"c", "@", "x", ".", "i", "o">>}) \cup DottedEmails,
     password : {<<"s", "e", "c", "r", "e", "t">>}, profile : {PlainProfile}]
    \cup [email : {<<"a", "@", "x", ".", "i", "o">>}, password : RawPasswords,
          profile : {PlainProfile}]
    \cup [email : {<<"b", "@", "x", ".", "i", "o">>},
          password : {<<"s", "e", "c", "r", "e", "t">>}, profile : RawProfiles]
    \cup {[email |-> <<"c", "@", "x", ".", "i", "o">>, password |-> <<"s", "e", "c", "r", "e", "t">>,
           profile |-> [first_name |-> <<"a", "l">>, last_name |-> <<"L", "i">>, nin |-> <<"a", "l", "r", "e", "a", "d", "y", " ", "i", "n", " ", "u", "s", "e">>]]}

\* The arguments of direct calls of UserUseCase.Register: the emails the
\* binding of the endpoint does not let through, and one it does.
RegisterCalls ==
    [email : {<<"a", "@", "x", ".", "i", "o">>, <<" ", "a", "@", "x", ".", "i", "o", " ">>,
              <<"a", "x", ".", "i", "o">>},
     password : {<<"s", "e", "c", "r", "e", "t">>}, profile : {PlainProfile}]

\* The bodies posted next to the list, page and delete requests: two users
\* that differ in the email and the first name.
PlainBodies ==
    {PlainBody,
     [email |-> <<"b", "@", "x", ".", "i", "o">>, password |-> <<"s", "e", "c", "r", "e", "t">>,
      profile |-> [first_name |-> <<"a", "l">>, last_name |-> <<"L", "i">>, nin |-> <<>>]]}

\* 2^62 + 1 and 2^63 - 1 (the largest int), in decimal.
HugePage == <<"4", "6", "1", "1", "6", "8", "6", "0", "1", "8", "4", "2", "7", "3", "8", "7", "9", "0", "5">>
MaxIntPage == <<"9", "2", "2", "3", "3", "7", "2", "0", "3", "6", "8", "5", "4", "7", "7", "5", "8", "0", "7">>

RawPages == {<<>>, <<"2">>, <<"0">>, <<"-", "1">>, <<"x">>, HugePage, MaxIntPage}
RawPageSizes == {<<>>, <<"1">>, <<"2">>, <<"1", "0", "0">>, <<"0">>, <<"1", "0", "1">>, <<"x">>}
RawSorts ==
    {<<>>, <<"e", "m", "a", "i", "l">>, <<" ", "e", "m", "a", "i", "l", " ">>, <<"E", "m", "a", "i", "l">>, <<"c", "r", "e", "a", "t", "e", "d", "_", "a", "t">>, <<"u", "p", "d", "a", "t", "e", "d", "_", "a", "t">>,
     <<"f", "i", "r", "s", "t", "_", "n", "a", "m", "e">>, <<"l", "a", "s", "t", "_", "n", "a", "m", "e">>, <<"p", "a", "s", "s", "w", "o", "r", "d", "_", "h", "a", "s", "h">>}
RawOrders == {<<>>, <<"d", "e", "s", "c">>, <<" ", "D", "E", "S", "C", " ">>, <<"d", "o", "w", "n">>}
RawSearches == {<<>>, <<"J", "o">>, <<" ", "a", "@", " ">>, <<"x", ".", "i", "o">>, <<"a", ".", "x">>, <<"L", "I">>}
\* Searches with the other operators of a regular expression in them.
OperatorSearches == {<<"a", "+">>, <<"o", "$">>, <<"$">>, <<".", "+">>, <<"+">>, <<"a", "+", "+", "@">>}
RawFields ==
    {<<>>, <<"e", "m", "a", "i", "l">>, <<"e", "m", "a", "i", "l", ",", " ", "p", "r", "o", "f", "i", "l", "e", ".", "f", "i", "r", "s", "t", "_", "n", "a", "m", "e">>, <<"c", "r", "e", "a", "t", "e", "d", "_", "a", "t", ",", "_", "i", "d">>,
     <<"p", "a", "s", "s", "w", "o", "r", "d", "_", "h", "a", "s", "h">>}
\* Field selections the store refuses.
RefusedFields ==
    {<<"p", "r", "o", "f", "i", "l", "e", ",", "p", "r", "o", "f", "i", "l", "e", ".", "f", "i", "r", "s", "t", "_", "n", "a", "m", "e">>, <<"e", "m", "a", "i", "l", ".">>, <<"p", "r", "o", "f", "i", "l", "e", ".", ".", "n", "i", "n">>, <<"$", "e", "m", "a", "i", "l">>}
\* Field selections with a "$" that the store accepts, the second one under a
\* search.
DollarFields == {<<"$", "i", "d">>, <<"e", "m", "a", "i", "l", ".", "$">>}

DefaultQuery ==
    [page |-> <<>>, page_size |-> <<>>, fields |-> <<>>, search |-> <<>>,
     sort |-> <<>>, order |-> <<>>]

\* The list requests: four pages with the page sizes 1 and 100; each other
\* page with the default size, and each other page size with the first page;
\* six sorts, four searches and three field selections on the first page; two
\* searches with an operator, a field selection the store refuses and one with
\* a "$" under a search.
Queries ==
    {[DefaultQuery EXCEPT !.page = p, !.page_size = z] :
        p \in {<<>>, <<"2">>, HugePage, MaxIntPage}, z \in {<<"1">>, <<"1", "0", "0">>}}
    \cup {[DefaultQuery EXCEPT !.page = p] : p \in RawPages \ {<<"2">>, HugePage}}
    \cup {[DefaultQuery EXCEPT !.page_size = z] : z \in RawPageSizes \ {<<>>, <<"1">>, <<"1", "0", "0">>}}
    \cup {[DefaultQuery EXCEPT !.page_size = <<"2">>, !.sort = k[1], !.order = k[2]] :
            k \in {<<<<"e", "m", "a", "i", "l">>, <<"d", "e", "s", "c">>>>,
                   <<<<" ", "e", "m", "a", "i", "l", " ">>, <<>>>>,
                   <<<<"E", "m", "a", "i", "l">>, <<>>>>,
                   <<<<"f", "i", "r", "s", "t", "_", "n", "a", "m", "e">>, <<" ", "D", "E", "S", "C", " ">>>>,
                   <<<<"c", "r", "e", "a", "t", "e", "d", "_", "a", "t">>, <<"d", "o", "w", "n">>>>,
                   <<<<"p", "a", "s", "s", "w", "o", "r", "d", "_", "h", "a", "s", "h">>, <<>>>>}}
    \cup {[DefaultQuery EXCEPT !.page_size = <<"1">>, !.search = q] :
            q \in {<<"J", "o">>, <<" ", "a", "@", " ">>, <<"a", ".", "x">>, <<"L", "I">>}}
    \cup {[DefaultQuery EXCEPT !.fields = f] :
            f \in {<<"e", "m", "a", "i", "l">>, <<"p", "a", "s", "s", "w", "o", "r", "d", "_", "h", "a", "s", "h">>,
                   <<"c", "r", "e", "a", "t", "e", "d", "_", "a", "t", ",", "_", "i", "d">>,
                   <<"e", "m", "a", "i", "l", ".">>}}
    \cup {[DefaultQuery EXCEPT !.search = q] : q \in {<<"+">>, <<"$">>}}
    \cup {[DefaultQuery EXCEPT !.search = <<"x", ".", "i", "o">>,
                               !.fields = <<"e", "m", "a", "i", "l", ".", "$">>]}

\* The store calls of one request that can fail: none, the first, the second.
Faults == 0..2

\* The bodies posted with the store call that fails during each: a failure of
\* the store does not depend on the body, so it is tried on one of them.
BodiesWithFaults ==
    {<<body, 0>> : body \in RegisterBodies} \cup {<<PlainBody, f>> : f \in 1..2}

\* The direct calls of UserUseCase.Register with the store call that fails: the
\* existence check, which every call gets to.
CallsWithFaults == {<<body, f>> : body \in RegisterCalls, f \in 0..1}

\* The bodies posted next to the list, page and delete requests.
PlainBodiesWithFaults == {<<body, 0>> : body \in PlainBodies}

\* The list requests with the store call that fails during each: a failure of
\* the store does not depend on the query, so it is tried on one of them.
QueriesWithFaults ==
    {<<q, 0>> : q \in Queries} \cup {<<DefaultQuery, f>> : f \in 1..2}

\* The list requests served next to every kind of Register call.
SomeQueriesWithFaults ==
    {<<DefaultQuery, f>> : f \in Faults}
    \cup {<<[DefaultQuery EXCEPT !.fields = <<"p", "a", "s", "s", "w", "o", "r", "d", "_", "h", "a", "s", "h">>], 0>>,
          <<[DefaultQuery EXCEPT !.sort = <<"E", "m", "a", "i", "l">>], 0>>}

(***************************************************************************)
(* The state machine.                                                      *)
(*   store   the documents of the collection, in natural order             *)
(*   nextId  the next identifier generateUUID gives                        *)
(*   now     the clock: the latest reading taken                           *)
(*   calls   the requests in progress in the order they started, each with *)
(*           its position (`pc`) and its local variables                   *)
(*   req     the request that was answered last, with the store call that  *)
(*           fails and the collection its first store call found           *)
(*   resp    its response                                                  *)
(*   ops     the store calls it issued, in order                           *)
(*   calc    the last tabulated value of calculateTotalPages               *)
(*   reading the pages a client has read of one list                       *)
(*                                                                         *)
(* The server runs every request in its own goroutine and the store serves *)
(* one call at a time, so a request is a sequence of steps, one per store  *)
(* call (and one where Register makes the new user), and the steps of the  *)
(* requests in progress interleave.  The step that ends a request takes it *)
(* out of `calls` and puts it, with its answer, into req, resp and ops;    *)
(* Complete hands the answer to the caller.  Identifiers are compared for  *)
(* equality only and are numbered in the order they are drawn.             *)
(***************************************************************************)
NoRequest == [op |-> "none"]
NoResponse == [status |-> 0, body |-> JSONNull, uc |-> NotCalled]
NoCalc == [totalCount |-> 0, pageSize |-> 1, totalPages |-> 0]
NoCalls == <<>>
NoReading == [pc |-> "none"]

Init ==
    /\ store = <<>>
    /\ reading = NoReading
    /\ nextId = 1
    /\ now = 1
    /\ req = NoRequest
    /\ resp = NoResponse
    /\ ops = <<>>
    /\ calc = NoCalc
    /\ calls = NoCalls

\* The readings of the clock one call of NewUser can take, the clock having
\* read `since` before.
ClockReadings(since) ==
    {<<t1, t2>> \in (since..MaxClock) \X (since..MaxClock) : t1 <= t2 /\ t2 <= now + 1}

\* A request is answered: the request, its response and its store calls.
Answered(rq, rs, issued) ==
    /\ req' = rq
    /\ resp' = rs
    /\ ops' = issued

\* A Register call as a request; `seen` is the collection its existence check
\* ran on.
RegisterRequest(c) ==
    [op |-> "Register", via |-> c.via, body |-> c.body, fault |-> c.fault,
     seen |-> c.checkedOn]

\* The answer to a Register call that returned err: the response of the
\* handler, or what the use case returned for a call that did not come
\* through the handler.
RegisterAnswer(via, err) ==
    IF via = "http" THEN HandlerRegisterAnswer(err)
    ELSE [status |-> 0, body |-> JSONNull, uc |-> [err |-> err]]

\* A Register call has made its existence check: it is answered when the
\* check found the email, and goes on otherwise.
RegisterChecked(c) ==
    IF c.pc = "done"
        THEN /\ Answered(RegisterRequest(c), RegisterAnswer(c.via, c.err), c.ops)
             /\ UNCHANGED calls
        ELSE /\ calls' = Append(calls, c)
             /\ UNCHANGED <<req, resp, ops>>

\* UserHandler.Register up to the first store call, for the bodies and failing
\* store calls given: the binding of the body, then the existence check of the
\* use case.
RegisterBegins(posted) ==
    /\ req = NoRequest
    /\ Len(calls) < MaxInFlight
    /\ \E bf \in posted :
        \E bindErr \in {ShouldBindJSON(bf[1])} :
            IF bindErr # Nil
                THEN /\ Answered([op |-> "Register", via |-> "http", body |-> bf[1],
                                  fault |-> bf[2], seen |-> store],
                                 [status |-> StatusBadRequest,
                                  body |-> ErrorResponse(bindErr), uc |-> NotCalled],
                                 <<>>)
                     /\ UNCHANGED calls
                ELSE \E c \in {RegisterCheck(store, bf[1].email, bf[1].password,
                                             bf[1].profile, bf[2])} :
                        RegisterChecked(c @@ [via |-> "http", body |-> bf[1]])
    /\ UNCHANGED <<store, reading, nextId, now, calc>>

\* POST /api/v1/users/register starts.
RegisterBegin == RegisterBegins(BodiesWithFaults)

\* POST /api/v1/users/register starts, next to list, page and delete requests.
RegisterPlainBegin == RegisterBegins(PlainBodiesWithFaults)

\* A call of UserUseCase.Register that does not come through the handler
\* starts: the existence check.
CallRegisterBegin ==
    /\ req = NoRequest
    /\ Len(calls) < MaxInFlight
    /\ \E bf \in CallsWithFaults :
        \E c \in {RegisterCheck(store, bf[1].email, bf[1].password, bf[1].profile, bf[2])} :
            RegisterChecked(c @@ [via |-> "usecase", body |-> bf[1]])
    /\ UNCHANGED <<store, reading, nextId, now, calc>>

\* A Register call that passed its check hashes the password and makes the
\* user: NewUser draws the identifier and reads the clock.  It is answered
\* when one of the two fails and goes on to the insert otherwise.
RegisterMakeUser ==
    /\ req = NoRequest
    /\ \E i \in 1..Len(calls), t \in ClockReadings(now) :
        /\ calls[i].op = "Register"
        /\ calls[i].pc = "make"
        /\ \E c \in {RegisterMake(calls[i], nextId, t[1], t[2])} :
            IF c.pc = "done"
                THEN /\ Answered(RegisterRequest(c), RegisterAnswer(c.via, c.err), c.ops)
                     /\ calls' = RemoveAt(calls, i)
                     /\ UNCHANGED <<nextId, now>>
                ELSE /\ nextId <= MaxUsers
                     /\ calls' = [calls EXCEPT ![i] = c]
                     /\ nextId' = nextId + 1
                     /\ now' = t[2]
                     /\ UNCHANGED <<req, resp, ops>>
    /\ UNCHANGED <<store, reading, calc>>

\* A Register call that has its user inserts it and is answered.
RegisterEnd ==
    /\ req = NoRequest
    /\ \E i \in 1..Len(calls) :
        /\ calls[i].op = "Register"
        /\ calls[i].pc = "insert"
        /\ \E r \in {RegisterCreate(store, calls[i], TRUE)} :
            /\ store' = r.coll
            /\ Answered(RegisterRequest(calls[i]), RegisterAnswer(calls[i].via, r.err),
                        calls[i].ops \o r.ops)
            /\ calls' = RemoveAt(calls, i)
    /\ UNCHANGED <<reading, nextId, now, calc>>

\* GET /api/v1/users/:id
GetUserByID ==
    /\ req = NoRequest
    /\ Len(calls) < MaxInFlight
    /\ \E id \in 1..nextId, fault \in 0..1 :
        \E r \in {HandlerGetUserByID(store, id, fault = 1)} :
            /\ req' = [op |-> "GetUserByID", via |-> "http", id |-> id, fault |-> fault]
            /\ resp' = [status |-> r.status, body |-> r.body, uc |-> r.uc]
            /\ ops' = r.ops
            /\ UNCHANGED <<store, reading, nextId, now, calc, calls>>

\* A call of UserUseCase.GetUserByEmail (no route leads to it).
GetUserByEmail ==
    /\ req = NoRequest
    /\ Len(calls) < MaxInFlight
    /\ \E email \in RawEmails, fault \in 0..1 :
        \E r \in {UCGetUserByEmail(store, email, fault = 1)} :
            /\ req' = [op |-> "GetUserByEmail", via |-> "usecase", email |-> email,
                        fault |-> fault]
            /\ resp' = [status |-> 0, body |-> JSONNull,
                        uc |-> [err |-> r.err, user |-> r.user]]
            /\ ops' = r.ops
            /\ UNCHANGED <<store, reading, nextId, now, calc, calls>>

\* A list request as a request; `seen` is the collection its count ran on.
ListRequest(c) ==
    [op |-> "GetUsers", via |-> "http", query |-> c.query, fault |-> c.fault,
     seen |-> c.countedOn]

\* UserHandler.GetUsers up to the first store call, for the queries and failing
\* store calls given: the parsing of the query, then the count of the
\* repository.  The request is answered when the sort field is refused or the
\* count fails, and goes on to the find otherwise.
GetUsersBegins(queries) ==
    /\ req = NoRequest
    /\ Len(calls) < MaxInFlight
    /\ \E qf \in queries :
        \E parsed \in {parseFilterParams(qf[1])} :
            IF parsed.err # Nil
                THEN /\ Answered([op |-> "GetUsers", via |-> "http", query |-> qf[1],
                                  fault |-> qf[2], seen |-> store],
                                 [status |-> StatusBadRequest, body |-> parsed.err,
                                  uc |-> NotCalled],
                                 <<>>)
                     /\ UNCHANGED calls
                ELSE \E c \in {GetUsersCount(store,
                                    buildUserFilterOptions(parsePaginationParams(qf[1]),
                                                           parsed.params),
                                    qf[2]) @@ [query |-> qf[1]]} :
                        IF c.pc = "done"
                            THEN /\ Answered(ListRequest(c), HandlerGetUsersAnswer(c), c.ops)
                                 /\ UNCHANGED calls
                            ELSE /\ calls' = Append(calls, c)
                                 /\ UNCHANGED <<req, resp, ops>>

\* GET /api/v1/users starts, next to every kind of Register call.
GetUsersBegin ==
    /\ GetUsersBegins(SomeQueriesWithFaults)
    /\ UNCHANGED <<store, reading, nextId, now, calc>>

\* A list request that has its count makes its find and is answered.
GetUsersEnd ==
    /\ req = NoRequest
    /\ \E i \in 1..Len(calls) :
        /\ calls[i].op = "GetUsers"
        /\ calls[i].pc = "find"
        /\ \E c \in GetUsersFind(store, calls[i]) :
            /\ Answered(ListRequest(calls[i]), HandlerGetUsersAnswer(c), c.ops)
            /\ calls' = RemoveAt(calls, i)
    /\ UNCHANGED <<store, reading, nextId, now, calc>>

\* The response is written and the caller has it.
Complete ==
    /\ req # NoRequest
    /\ req' = NoRequest
    /\ resp' = NoResponse
    /\ ops' = <<>>
    /\ UNCHANGED <<store, reading, nextId, now, calc, calls>>

Next ==
    \/ RegisterBegin
    \/ CallRegisterBegin
    \/ RegisterMakeUser
    \/ RegisterEnd
    \/ GetUserByID
    \/ GetUserByEmail
    \/ GetUsersBegin
    \/ GetUsersEnd
    \/ Complete

\* The routes of the API and the direct calls of the use case.
Spec == Init /\ [][Next]_vars

(***************************************************************************)
(* The list endpoint with all its queries, next to registrations.          *)
(***************************************************************************)
\* GET /api/v1/users starts.
ListBegin ==
    /\ GetUsersBegins(QueriesWithFaults)
    /\ UNCHANGED <<store, reading, nextId, now, calc>>

NextLists ==
    \/ RegisterPlainBegin
    \/ RegisterMakeUser
    \/ RegisterEnd
    \/ ListBegin
    \/ GetUsersEnd
    \/ Complete

SpecLists == Init /\ [][NextLists]_vars

(***************************************************************************)
(* The delete handler.  RegisterRoutes gives it no route, so it is called  *)
(* as a function here, next to the requests that create and read users.    *)
(***************************************************************************)
\* UserHandler.DeleteUser with the id parameter of the path: one store call.
DeleteUser ==
    /\ req = NoRequest
    /\ Len(calls) < MaxInFlight
    /\ \E id \in 1..nextId, fault \in 0..1 :
        \E r \in {HandlerDeleteUser(store, id, fault = 1)} :
            /\ store' = r.coll
            /\ req' = [op |-> "DeleteUser", via |-> "handler", id |-> id, fault |-> fault]
            /\ resp' = [status |-> r.status, body |-> r.body, uc |-> r.uc]
            /\ ops' = r.ops
            /\ UNCHANGED <<reading, nextId, now, calc, calls>>

NextDelete ==
    \/ RegisterPlainBegin
    \/ RegisterMakeUser
    \/ RegisterEnd
    \/ DeleteUser
    \/ GetUserByID
    \/ Complete

SpecDelete == Init /\ [][NextDelete]_vars

(***************************************************************************)
(* calculateTotalPages, tabulated over its arguments.                      *)
(***************************************************************************)
Calculate ==
    /\ calc = NoCalc
    /\ \E totalCount \in 0..MaxTotalCount, pageSize \in 1..MaxPageSize :
            calc' = [totalCount |-> totalCount, pageSize |-> pageSize,
                     totalPages |-> calculateTotalPages(totalCount, pageSize)]
    /\ UNCHANGED <<store, reading, nextId, now, req, resp, ops, calls>>

\* The result is consumed.
Forget ==
    /\ calc # NoCalc
    /\ calc' = NoCalc
    /\ UNCHANGED <<store, reading, nextId, now, req, resp, ops, calls>>

NextCalc == Calculate \/ Forget

SpecCalc == Init /\ [][NextCalc]_vars

(***************************************************************************)
(* The parsing of page_size and order, tabulated: from the query string to *)
(* the options of the find.                                                *)
(***************************************************************************)
\* How far the page sizes tried go beyond 0 and beyond the maximum.
SizeMargin == 3

\* Texts of page_size with the integer each stands for: the plain decimal
\* texts around [1, 100], and two other spellings strconv.Atoi accepts.
SizedTexts ==
    {<<Decimal(n), n>> : n \in (0 - SizeMargin)..(MaxPageSize + SizeMargin)}
    \cup {<<<<"+", "5">>, 5>>, <<<<"0", "0", "7">>, 7>>,
          <<<<"-", "0">>, 0>>, <<<<"0", "1", "0", "1">>, 101>>}

\* 2^32 + 1 and 2^64 + 1 in decimal: integers above the maximum.
OversizedTexts ==
    {<<"4", "2", "9", "4", "9", "6", "7", "2", "9", "7">>,
     <<"1", "8", "4", "4", "6", "7", "4", "4", "0", "7", "3", "7", "0", "9", "5", "5", "1", "6", "1", "7">>,
     HugePage, MaxIntPage}

\* Texts of page_size that are not integers; the first is the missing parameter.
UnsizedTexts ==
    {<<>>, <<"x">>, <<" ", "5">>, <<"5", " ">>, <<"1", ".", "5">>, <<"1", "e", "1">>,
     <<"1", "0", "x">>, <<"-">>, <<"+">>, <<"t", "e", "n">>}

PageSizeTexts == {p[1] : p \in SizedTexts} \cup OversizedTexts \cup UnsizedTexts

\* Values of order that are "desc" up to letter case and surrounding blanks.
DescTexts ==
    {<<"d", "e", "s", "c">>, <<"D", "E", "S", "C">>, <<" ", "D", "e", "s", "c", " ">>,
     <<"d", "E", "s", "C", " ">>, <<" ", " ", "d", "e", "s", "c">>}

\* Other values of order; the first is the missing parameter.
OtherOrderTexts ==
    {<<>>, <<" ">>, <<"a", "s", "c">>, <<" ", "A", "S", "C">>, <<"d", "o", "w", "n">>,
     <<"d", "e", "s", "c", "e", "n", "d", "i", "n", "g">>, <<"d", "e", " ", "s", "c">>,
     <<"-", "1">>, <<"d", "e", "s", "c", ",">>, <<"D", "E", "S">>}

OrderTexts == DescTexts \cup OtherOrderTexts

\* What GetUsers of the handler and of the repository make of a query before
\* the store is called.
ParsedQuery(query) ==
    With(parsePaginationParams(query), LAMBDA pagination :
    With(parseFilterParams(query), LAMBDA parsed :
        IF parsed.err # Nil
            THEN [query |-> query, err |-> parsed.err]
            ELSE With(setDefaultOptions(buildUserFilterOptions(pagination, parsed.params)),
                      LAMBDA opts :
                    [query |-> query, err |-> Nil, pagination |-> pagination,
                     params |-> parsed.params, opts |-> opts,
                     findOpts |-> buildFindOptions(opts)])))

Parse ==
    /\ calc = NoCalc
    /\ \E z \in PageSizeTexts, o \in OrderTexts, k \in {<<>>, PathEmail} :
            calc' = ParsedQuery([DefaultQuery EXCEPT !.page_size = z, !.order = o,
                                                     !.sort = k])
    /\ UNCHANGED <<store, reading, nextId, now, req, resp, ops, calls>>

NextParse == Parse \/ Forget

SpecParse == Init /\ [][NextParse]_vars

(***************************************************************************)
(* The options of a list request, tabulated over all six parameters: what  *)
(* the handler passes to the use case and what the repository asks of the  *)
(* store.                                                                  *)
(***************************************************************************)
OptionPages == RawPages \cup {<<"1">>, <<"+", "3">>}

OptionSorts ==
    RawSorts \cup {<<"n", "a", "m", "e">>, PathFirstName, <<" ", "l", "a", "s", "t", "_", "n", "a", "m", "e">>}

OptionOrders == RawOrders \cup {<<"a", "s", "c">>, <<" ", "A", "s", "c">>}

\* Texts of the fields parameter with the field names each lists; the first is
\* the missing parameter.
FieldTexts ==
    {<<<<>>, {}>>,
     <<PathEmail, {PathEmail}>>,
     <<PathID, {PathID}>>,
     <<<<"e", "m", "a", "i", "l", ",", " ", "p", "r", "o", "f", "i", "l", "e", ".", "f", "i", "r", "s", "t", "_", "n", "a", "m", "e">>,
       {PathEmail, PathFirstName}>>,
     <<<<"c", "r", "e", "a", "t", "e", "d", "_", "a", "t", ",", "_", "i", "d">>,
       {PathCreatedAt, PathID}>>,
     <<<<" ", "e", "m", "a", "i", "l", " ", ",", "e", "m", "a", "i", "l">>, {PathEmail}>>}

\* A stored user with every field set, to show what a projection returns.
SampleUser ==
    [id |-> 1, email |-> <<"a", "@", "x", ".", "i", "o">>,
     password_hash |-> <<"$", "s", "e", "c", "r", "e", "t">>,
     profile |-> [first_name |-> <<"J", "o">>, last_name |-> <<"L", "i">>, nin |-> <<>>],
     created_at |-> 1, updated_at |-> 2]

\* UserHandler.GetUsers up to the use case call, and UserRepository.GetUsers up
\* to the store calls: the options passed, the options of the find, and what
\* the find's projection returns of the sample user.
HandledQuery(query) ==
    With(parsePaginationParams(query), LAMBDA pagination :
    With(parseFilterParams(query), LAMBDA parsed :
        IF parsed.err # Nil
            THEN [request |-> query, err |-> parsed.err]
            ELSE With(buildUserFilterOptions(pagination, parsed.params), LAMBDA options :
                 With(buildFindOptions(setDefaultOptions(options)), LAMBDA findOpts :
                    [request |-> query, err |-> Nil, options |-> options,
                     findOpts |-> findOpts,
                     sample |-> ProjectDoc(SampleUser, findOpts.projection)]))))

ParseOptions ==
    /\ calc = NoCalc
    /\ \E p \in OptionPages, z \in RawPageSizes, k \in OptionSorts, o \in OptionOrders,
          f \in FieldTexts :
            calc' = HandledQuery([page |-> p, page_size |-> z, fields |-> f[1],
                                  search |-> <<>>, sort |-> k, order |-> o])
    /\ UNCHANGED <<store, reading, nextId, now, req, resp, ops, calls>>

NextOptions == ParseOptions \/ Forget

SpecOptions == Init /\ [][NextOptions]_vars

(***************************************************************************)
(* Callers of the use case, followed to the end of a behaviour: the steps  *)
(* of a call are those of the requests above, and a call that has returned *)
(* stays in `calls` with what it returned (`pc` is "done"), so that the    *)
(* properties can compare the calls of one behaviour with each other.      *)
(***************************************************************************)
\* How many requests there are in one behaviour.
MaxCalls == 3

ConcEmails ==
    {<<"a", "@", "x", ".", "i", "o">>, <<"A", "@", "X", ".", "i", "o">>,
     <<" ", "a", "@", "x", ".", "i", "o", " ">>, <<"b", "@", "x", ".", "i", "o">>}

ConcProfile == [first_name |-> <<"J", "o">>, last_name |-> <<"L", "i">>, nin |-> <<>>]

ConcPassword == <<"s", "e", "c", "r", "e", "t">>

ConcQueries ==
    {DefaultQuery, [DefaultQuery EXCEPT !.page_size = <<"1">>],
     [DefaultQuery EXCEPT !.page = <<"0">>, !.page_size = <<"1", "0", "1">>],
     [DefaultQuery EXCEPT !.page = <<"-", "1">>, !.page_size = <<"2">>],
     [DefaultQuery EXCEPT !.search = <<"+">>]}

\* A Register starts and makes its existence check.
RegisterLookup ==
    /\ Len(calls) < MaxCalls
    /\ \E email \in ConcEmails :
            calls' = Append(calls, RegisterCheck(store, email, ConcPassword, ConcProfile, 0))
    /\ UNCHANGED <<store, reading, nextId, now, req, resp, ops, calc>>

\* A Register that passed its check hashes the password and makes the user:
\* NewUser draws the identifier and reads the clock.
RegisterNewUser ==
    \E i \in 1..Len(calls), t \in ClockReadings(now) :
        /\ calls[i].op = "Register"
        /\ calls[i].pc = "make"
        /\ nextId <= MaxUsers
        /\ \E c \in {RegisterMake(calls[i], nextId, t[1], t[2])} :
            /\ calls' = [calls EXCEPT ![i] = c]
            /\ nextId' = IF c.pc = "insert" THEN nextId + 1 ELSE nextId
            /\ now' = IF c.pc = "insert" THEN t[2] ELSE now
        /\ UNCHANGED <<store, reading, req, resp, ops, calc>>

\* A Register that has its user goes on to the insert.
RegisterInsertOn(indexed) ==
    \E i \in 1..Len(calls) :
        /\ calls[i].op = "Register"
        /\ calls[i].pc = "insert"
        /\ \E r \in {RegisterCreate(store, calls[i], indexed)} :
            /\ store' = r.coll
            /\ calls' = [calls EXCEPT ![i] = [@ EXCEPT !.pc = "done", !.err = r.err]]
        /\ UNCHANGED <<reading, nextId, now, req, resp, ops, calc>>

RegisterInsert == RegisterInsertOn(TRUE)

RegisterInsertUnindexed == RegisterInsertOn(FALSE)

\* A list request starts and counts.
ListCount ==
    /\ Len(calls) < MaxCalls
    /\ \E q \in ConcQueries :
            calls' = Append(calls,
                GetUsersCount(store, buildUserFilterOptions(parsePaginationParams(q),
                                                            parseFilterParams(q).params), 0))
    /\ UNCHANGED <<store, reading, nextId, now, req, resp, ops, calc>>

\* A list request that has its count goes on to the find.
ListFind ==
    /\ \E i \in 1..Len(calls) :
        /\ calls[i].op = "GetUsers"
        /\ calls[i].pc = "find"
        /\ \E c \in GetUsersFind(store, calls[i]) : calls' = [calls EXCEPT ![i] = c]
    /\ UNCHANGED <<store, reading, nextId, now, req, resp, ops, calc>>

\* A delete: one store call.
DeleteCall ==
    /\ Len(calls) < MaxCalls
    /\ \E id \in 1..nextId :
        \E r \in {UCDeleteUser(store, id, FALSE)} :
            /\ store' = r.coll
            /\ calls' = Append(calls, [op |-> "DeleteUser", pc |-> "done", id |-> id,
                                       err |-> r.err])
    /\ UNCHANGED <<reading, nextId, now, req, resp, ops, calc>>

\* The users a caller passes to UpdateUser: for every identifier, with and
\* without an email, a password hash and a profile.
SuppliedUsers ==
    [id : 1..nextId,
     email : {<<>>, <<"b", "@", "x", ".", "i", "o">>},
     password_hash : {<<>>, <<"$", "n", "e", "w">>},
     profile : {ZeroProfile, [first_name |-> <<"a", "l">>, last_name |-> <<"L", "i">>, nin |-> <<>>]},
     created_at : {1},
     updated_at : {ZeroTime}]

\* A call of UserUseCase.UpdateUser (no route leads to it) starts: the
\* repository reads the clock into the user's UpdatedAt.
UpdateStamp ==
    /\ Len(calls) < MaxCalls
    /\ \E user \in SuppliedUsers, t \in now..MaxClock, fault \in BOOLEAN :
        /\ now' = t
        /\ calls' = Append(calls, [op |-> "UpdateUser", pc |-> "update", user |-> user,
                                   stamped |-> StampUser(user, t), at |-> t,
                                   fault |-> fault, err |-> Nil,
                                   before |-> <<>>, after |-> <<>>])
    /\ UNCHANGED <<store, reading, nextId, req, resp, ops, calc>>

\* An UpdateUser that has read the clock goes on to its store call.  `before`
\* and `after` keep the collection around it, for the properties.
UpdateStore ==
    /\ \E i \in 1..Len(calls) :
        /\ calls[i].op = "UpdateUser"
        /\ calls[i].pc = "update"
        /\ \E r \in {UpdateStamped(store, calls[i].stamped, calls[i].fault)} :
            /\ store' = r.coll
            /\ calls' = [calls EXCEPT ![i] = [@ EXCEPT !.pc = "done", !.err = r.err,
                                                      !.before = store, !.after = r.coll]]
    /\ UNCHANGED <<reading, nextId, now, req, resp, ops, calc>>

NextConc ==
    \/ RegisterLookup
    \/ RegisterNewUser
    \/ RegisterInsert
    \/ ListCount
    \/ ListFind
    \/ DeleteCall

\* Concurrent requests on the collection as scripts/mongo-init.js sets it up.
SpecConc == Init /\ [][NextConc]_vars

NextUnindexed ==
    \/ RegisterLookup
    \/ RegisterNewUser
    \/ RegisterInsertUnindexed

\* Concurrent Register calls on a database scripts/mongo-init.js was not run on.
SpecUnindexed == Init /\ [][NextUnindexed]_vars

NextUpdate ==
    \/ RegisterLookup
    \/ RegisterNewUser
    \/ RegisterInsert
    \/ UpdateStamp
    \/ UpdateStore

\* Register and UpdateUser calls.
SpecUpdate == Init /\ [][NextUpdate]_vars

(***************************************************************************)
(* A client reading page after page of one list: every page is one         *)
(* GET /users, with the same page size, search, sort and order, and        *)
(* registrations are served before, between and during them.  `reading`    *)
(* holds the query, the page asked for, the pages read so far and the page *)
(* read past the last one, each with the collection its count and its find *)
(* ran on.                                                                 *)
(***************************************************************************)
\* The lists read page by page: by pages of one and of two, sorted by email
\* (a total order, the emails being unique) in both orders or by created_at,
\* one under a search and one by pages of a hundred.
PagedQueries ==
    {[DefaultQuery EXCEPT !.page_size = z, !.sort = k[1], !.order = k[2]] :
        z \in {<<"1">>, <<"2">>},
        k \in {<<PathEmail, <<>>>>, <<PathEmail, <<"d", "e", "s", "c">>>>, <<<<>>, <<>>>>}}
    \cup {[DefaultQuery EXCEPT !.page_size = <<"1">>, !.search = <<"a", "@">>, !.sort = PathEmail],
          [DefaultQuery EXCEPT !.page_size = <<"1", "0", "0">>, !.sort = PathEmail]}

\* How many pages past the last one are read as well.
PagesPast == 2

\* The pages requested after the last one: the next ones, and the two pages of
\* RawPages that are large.
PagesBeyond(totalPages) ==
    {Decimal(totalPages + d) : d \in 1..PagesPast} \cup {HugePage, MaxIntPage}

\* The sort of the query puts the matching documents in one order only.
SortIsTotal(coll, query) ==
    With(ParsedQuery(query), LAMBDA c :
        Cardinality(SortedOrders(MatchingDocs(coll, buildSearchFilter(c.opts.Search)),
                                 c.findOpts.sort)) = 1)

\* What the client keeps of the answer to the request for one page: the answer,
\* the collection the count ran on and the collection the find ran on.
PageRead(page) ==
    [page |-> page, status |-> resp.status, body |-> resp.body,
     counted |-> req.seen, found |-> store]

\* The client asks for the first page of a list: the request starts.
AskFirstPage ==
    /\ reading = NoReading
    /\ \E query \in PagedQueries :
        /\ GetUsersBegins({<<[query EXCEPT !.page = <<"1">>], 0>>})
        /\ reading' = [pc |-> "asked", query |-> query, asked |-> <<"1">>,
                       pages |-> <<>>, past |-> <<>>]
    /\ UNCHANGED <<store, nextId, now, calc>>

\* The client asks for the next page, up to the total_pages of the first answer.
AskNextPage ==
    /\ reading.pc = "pages"
    /\ Len(reading.pages) < reading.pages[1].body.total_pages
    /\ \E page \in {Decimal(Len(reading.pages) + 1)} :
        /\ GetUsersBegins({<<[reading.query EXCEPT !.page = page], 0>>})
        /\ reading' = [reading EXCEPT !.pc = "asked", !.asked = page]
    /\ UNCHANGED <<store, nextId, now, calc>>

\* The client has read the pages up to total_pages and asks for one past them.
AskPastPage ==
    /\ reading.pc = "pages"
    /\ Len(reading.pages) >= reading.pages[1].body.total_pages
    /\ \E page \in PagesBeyond(reading.pages[1].body.total_pages) :
        /\ GetUsersBegins({<<[reading.query EXCEPT !.page = page], 0>>})
        /\ reading' = [reading EXCEPT !.pc = "askedPast", !.asked = page]
    /\ UNCHANGED <<store, nextId, now, calc>>

\* The client has the answer to the page it asked for.  It stops after a first
\* page that is not answered 200 and after the page past the last.
TakePage ==
    /\ req.op = "GetUsers"
    /\ reading' =
        IF reading.pc = "askedPast"
            THEN [reading EXCEPT !.pc = "done", !.past = <<PageRead(reading.asked)>>]
            ELSE [reading EXCEPT
                    !.pc = IF reading.pages = <<>> /\ resp.status # StatusOK
                               THEN "done" ELSE "pages",
                    !.pages = Append(@, PageRead(reading.asked))]
    /\ req' = NoRequest
    /\ resp' = NoResponse
    /\ ops' = <<>>
    /\ UNCHANGED <<store, nextId, now, calc, calls>>

\* The caller of a Register has its answer.
RegisterAnswered == req.op = "Register" /\ Complete

NextPages ==
    \/ RegisterPlainBegin
    \/ RegisterMakeUser
    \/ RegisterEnd
    \/ AskFirstPage
    \/ AskNextPage
    \/ AskPastPage
    \/ GetUsersEnd
    \/ TakePage
    \/ RegisterAnswered

SpecPages == Init /\ [][NextPages]_vars

(***************************************************************************)
(* Properties.                                                             *)
(***************************************************************************)
\* The email NewUser is documented to store: trimmed and lowercased.
Normalised(email) == TrimSpace(ToLower(email))

HasAt(email) == Contains(email, <<"@">>)

IsRegister == req.op = "Register"
IsList == req.op = "GetUsers"

\* The store calls of the request with the given name.
Issued(log, name) == {i \in 1..Len(log) : log[i].op = name}

\* C2: for every pageSize in [1,100] and every totalCount >= 0 the total pages
\* computed for a list result are ceil(totalCount / pageSize): the least
\* number of pages of that size holding totalCount documents, 0 for none.
C2_TotalPagesIsCeiling ==
    /\ calc.totalPages * calc.pageSize >= calc.totalCount
    /\ calc.totalPages >= 0
    /\ calc.totalPages > 0 => (calc.totalPages - 1) * calc.pageSize < calc.totalCount
    /\ calc.totalCount = 0 => calc.totalPages = 0

\* 12 documents in pages of 5 make 3 pages.
C2_Witness == calc.totalCount = 12 /\ calc.pageSize = 5 /\ calc.totalPages = 3

\* C4: in the list endpoint a sort parameter that is non-empty after trimming
\* and is not exactly one of the five sort fields is answered 400 with a
\* message naming the five, and no store call is issued; an empty sort
\* parameter is accepted and the find sorts by created_at.
C4_InvalidSortRejected ==
    IsList =>
        LET sortBy == TrimSpace(req.query.sort)
            five == {<<"e", "m", "a", "i", "l">>, <<"c", "r", "e", "a", "t", "e", "d", "_", "a", "t">>, <<"u", "p", "d", "a", "t", "e", "d", "_", "a", "t">>, <<"f", "i", "r", "s", "t", "_", "n", "a", "m", "e">>, <<"l", "a", "s", "t", "_", "n", "a", "m", "e">>}
        IN  /\ (sortBy # <<>> /\ sortBy \notin five) =>
                    /\ resp.status = 400
                    /\ \A name \in five : Contains(resp.body.error, name)
                    /\ ops = <<>>
            /\ sortBy = <<>> =>
                    /\ resp.status # 400
                    /\ ops # <<>>
                    /\ \A i \in Issued(ops, "Find") :
                            ops[i].findOpts.sort[1].path = <<"c", "r", "e", "a", "t", "e", "d", "_", "a", "t">>

\* "Email" is refused although the store holds users.
C4_Witness ==
    /\ IsList
    /\ req.query.sort = <<"E", "m", "a", "i", "l">>
    /\ resp.status = 400
    /\ ops = <<>>
    /\ store # <<>>

\* C6: every user a Register persists has the trimmed, lowercased form of the
\* submitted email, which contains "@"; and every stored user has such an email.
C6_StoredEmailNormalised ==
    [][/\ \A i \in 1..Len(store') :
            /\ store'[i].email = Normalised(store'[i].email)
            /\ HasAt(store'[i].email)
       /\ store' # store =>
            /\ req'.op = "Register"
            /\ Len(store') = Len(store) + 1
            /\ store'[Len(store')].email = Normalised(req'.body.email)]_vars

\* A user was persisted from an email that was not in its normal form.
C6_Witness ==
    /\ IsRegister
    /\ resp.uc = [err |-> Nil]
    /\ req.body.email # Normalised(req.body.email)
    /\ store[Len(store)].email = Normalised(req.body.email)

\* C7: a Register with an email without "@" fails with a validation error
\* (ErrInvalidEmail from the use case, 400 from the endpoint), issues no
\* insert and leaves the store as it was: it never gets to the insert, and
\* every step that changes the store ends a Register whose email has an "@".
C7_NoAtRejected ==
    [][/\ (req'.op = "Register" /\ ~HasAt(req'.body.email)) =>
            /\ store' = store
            /\ Issued(ops', "InsertOne") = {}
            /\ req'.via = "usecase" => resp'.uc = [err |-> ErrInvalidEmail]
            /\ req'.via = "http" => resp'.status = 400
       /\ \A i \in 1..Len(calls') :
            (calls'[i].op = "Register" /\ ~HasAt(calls'[i].email)) => calls'[i].pc = "make"
       /\ store' # store => (req'.op = "Register" /\ HasAt(req'.body.email))]_vars

\* The use case refused an email without "@" while the store held users, one
\* of them inserted after the existence check of the call.
C7_Witness ==
    /\ IsRegister
    /\ req.via = "usecase"
    /\ ~HasAt(req.body.email)
    /\ resp.uc = [err |-> ErrInvalidEmail]
    /\ store # <<>>
    /\ req.seen # store

\* The identifiers of documents, in their order.
IdsOf(docs) == [i \in 1..Len(docs) |-> docs[i].id]

\* The users stored under an email.
StoredUnder(coll, email) == {i \in 1..Len(coll) : coll[i].email = email}

\* C1: a list request answered 200 for page p and page size s, nothing being
\* written between its count and its find, reports as
\* total_count the number N of documents matching the filter, and as items
\* the documents at positions (p-1)*s+1 .. min(p*s, N) of the matching
\* documents in the requested order: none when (p-1)*s >= N.
C1_PageIsSliceOfMatching ==
    (IsList /\ resp.status = 200 /\ req.seen = store) =>
        LET r == resp.uc.result
            matching == MatchingDocs(store, ops[1].filter)
            N == Len(matching)
            before == I64Add(r.Page, I64MinusOne)
            first == IF I64IsSmall(before) /\ I64Small(before) < Limb
                         THEN I64Small(before) * r.PageSize + 1 ELSE N + 1
            last == IF first + r.PageSize - 1 < N THEN first + r.PageSize - 1 ELSE N
        IN  /\ r.TotalCount = N
            /\ resp.body.total_count = N
            /\ \E o \in SortedOrders(matching, ops[2].findOpts.sort) :
                    IdsOf(r.Users) = IF first > last THEN <<>>
                                     ELSE IdsOf(SubSeq(o, first, last))

\* C3: the find of a list request is issued with limit = pageSize and
\* skip = (page - 1) * pageSize, where page is the requested page, or 1 when
\* the parameter is missing, not a number or below 1 (which is not an error).
C3_SkipAndLimit ==
    IsList =>
        LET parsed == Atoi(req.query.page)
            good == req.query.page # <<>> /\ parsed.ok /\ I64IsPos(parsed.val)
            page == IF good THEN parsed.val ELSE I64(1)
            pageSize == parsePaginationParams(req.query).PageSize
        IN  /\ \A i \in Issued(ops, "Find") :
                    /\ ops[i].findOpts.limit = pageSize
                    /\ ops[i].findOpts.skip \o <<0>> =
                            MulAddWide(I64Add(page, I64MinusOne), pageSize, 0)
            /\ (~good /\ resp.status = 200) => resp.body.page = I64(1)
            /\ (~good /\ TrimSpace(req.query.sort) = <<>>) => resp.status # 400

\* C5: a Register whose email, trimmed and lowercased, is the email of a
\* user that was stored when its existence check ran is refused as a conflict (ErrEmailTaken from the use case, 409
\* from the endpoint) and leaves exactly one user under that email.
C5_SecondRegisterConflicts ==
    [][(/\ req'.op = "Register"
        /\ req'.fault = 0
        /\ StoredUnder(req'.seen, Normalised(req'.body.email)) # {}
        /\ req'.via = "http" => ShouldBindJSON(req'.body) = Nil) =>
            /\ req'.via = "usecase" => resp'.uc = [err |-> ErrEmailTaken]
            /\ req'.via = "http" => resp'.status = 409
            /\ Cardinality(StoredUnder(store', Normalised(req'.body.email))) = 1]_vars

\* C8: the register endpoint answers 201 exactly when the user was created,
\* 400 on a validation failure, 409 when the email is in use and 500 when
\* the store fails.
C8_RegisterStatus ==
    (IsRegister /\ req.via = "http") =>
        /\ resp.status \in {201, 400, 409, 500}
        /\ resp.status = 201 <=> resp.uc = [err |-> Nil]
        /\ resp.uc = NotCalled => resp.status = 400
        /\ resp.uc = [err |-> ErrInvalidEmail] => resp.status = 400
        /\ resp.uc = [err |-> ErrEmailTaken] => resp.status = 409
        /\ resp.uc = [err |-> ErrStoreDown] => resp.status = 500

\* C9: a lookup by id or by email of a user that is not stored returns
\* ErrUserNotFound, never no user with no error; GET /users/:id answers 404
\* for it, and 200 only with a stored user as the body.
C9_AbsentIsNotFound ==
    /\ (req.op = "GetUserByEmail" /\ req.fault = 0) =>
            /\ StoredUnder(store, req.email) = {} => resp.uc.err = ErrUserNotFound
            /\ ~(resp.uc.err = Nil /\ resp.uc.user = NilUser)
    /\ (req.op = "GetUserByID" /\ req.fault = 0) =>
            /\ (\A i \in 1..Len(store) : store[i].id # req.id) =>
                    /\ resp.uc.err = ErrUserNotFound
                    /\ resp.status = 404
            /\ ~(resp.uc.err = Nil /\ resp.uc.user = NilUser)
            /\ resp.status = 200 =>
                    \E i \in 1..Len(store) :
                        store[i].id = req.id /\ resp.body = UserJSON(store[i])

\* C10: when the store fails on the lookup of GET /users/:id, the use case
\* returns the store's error as it is and the endpoint answers 500, not 404.
C10_StoreFailurePropagates ==
    (req.op = "GetUserByID" /\ req.fault = 1) =>
        /\ resp.uc.err = ErrStoreDown
        /\ resp.status = 500

\* The positions of the users stored under an id.
StoredWithId(coll, id) == {i \in 1..Len(coll) : coll[i].id = id}

\* The users of a collection other than the one with the given id.
Without(coll, id) == SelectSeq(coll, LAMBDA u : u.id # id)

\* The delete in progress was served by the store and found nothing to remove.
DeletedNothing ==
    /\ req.op = "DeleteUser"
    /\ req.fault = 0
    /\ ops[1].deleted = 0

\* C11: deleting by id is idempotent. Every delete the store serves is answered
\* 204 with no error and leaves the store without that user and otherwise as it
\* was; when the user is not there (a second delete of the same id) the store
\* stays exactly as it is.
C11_DeleteIdempotent ==
    [][(req'.op = "DeleteUser" /\ req'.fault = 0) =>
            /\ resp'.status = StatusNoContent
            /\ resp'.uc.err = Nil
            /\ store' = Without(store, req'.id)
            /\ Without(store', req'.id) = store'
            /\ (StoredWithId(store, req'.id) = {} => store' = store)]_vars

\* A second delete: the id was handed out before (ids are handed out in order
\* and only a delete removes a user), no user has it any more, the answer is 204.
C11_Witness ==
    /\ DeletedNothing
    /\ req.id < nextId
    /\ store # <<>>
    /\ resp.status = StatusNoContent

\* C12: the delete handler answers 204 when the user existed and was removed,
\* 404 when no user has the id, 500 when the store fails.
C12_DeleteStatus ==
    req.op = "DeleteUser" =>
        /\ (req.fault = 0 /\ ops[1].deleted = 1) => resp.status = StatusNoContent
        /\ DeletedNothing => resp.status = StatusNotFound
        /\ req.fault = 1 => resp.status = StatusInternalServerError

\* The collection with every password hash replaced: the i-th user of n gets a
\* hash of n + 1 - i characters, so the new hashes differ from the old ones,
\* from each other, and order the users the other way round.
Rehash(coll) ==
    [i \in 1..Len(coll) |->
        [coll[i] EXCEPT !.password_hash = [k \in 1..(Len(coll) + 1 - i) |-> "#"]]]

\* A response body with a password hash among its keys, at the top or in a
\* listed user.
CarriesHash(body) ==
    \/ "password_hash" \in DOMAIN body
    \/ /\ "users" \in DOMAIN body
       /\ \E i \in 1..Len(body.users) : "password_hash" \in DOMAIN body.users[i]

\* What the client sees of the outcomes of a request.
Seen(outcomes) == {[status |-> r.status, body |-> r.body] : r \in outcomes}

\* C13: no response of get-by-id, list (with or without field selection) or
\* register carries a password hash, and a read request has the same possible
\* responses on the store as on a store that differs from it only in the
\* password hashes.
C13_HashNeverLeaves ==
    /\ (req # NoRequest /\ req.via = "http") => ~CarriesHash(resp.body)
    /\ (req.op = "GetUserByID" /\ req.via = "http") =>
            With(Seen({HandlerGetUserByID(Rehash(store), req.id, req.fault = 1)}),
                 LAMBDA other :
                    /\ other = Seen({HandlerGetUserByID(store, req.id, req.fault = 1)})
                    /\ [status |-> resp.status, body |-> resp.body] \in other)
    /\ req.op = "GetUsers" =>
            With(Seen(HandlerGetUsers(Rehash(req.seen), Rehash(store), req.query, req.fault)),
                 LAMBDA other :
                    /\ other = Seen(HandlerGetUsers(req.seen, store, req.query, req.fault))
                    /\ [status |-> resp.status, body |-> resp.body] \in other)

\* A list that selects the field password_hash on a store of two users or
\* more, one of them inserted between its count and its find: the store returns
\* the hash to the repository, the answer is 200.
C13_Witness ==
    /\ req.op = "GetUsers"
    /\ req.query.fields = PathPasswordHash
    /\ resp.status = StatusOK
    /\ Len(store) >= 2
    /\ req.seen # store
    /\ resp.uc.result.Users # <<>>
    /\ resp.uc.result.Users[1].password_hash # <<>>

\* The term occurs in the value as a substring, the casing of letters aside.
OccursIn(term, value) == Contains(ToLower(value), ToLower(term))

\* The stored users in whose email, first name or last name the term occurs.
SubstringMatches(coll, term) ==
    {i \in 1..Len(coll) :
        \/ OccursIn(term, coll[i].email)
        \/ OccursIn(term, coll[i].profile.first_name)
        \/ OccursIn(term, coll[i].profile.last_name)}

\* C14: the search of a list request matches every user when the trimmed term
\* is empty; otherwise it matches exactly the users in whose email, first name
\* or last name the term occurs as a case-insensitive substring.  The count of
\* the request tells how many users of the collection it found matched.
C14_SearchIsSubstring ==
    (IsList /\ resp.status = StatusOK) =>
        With(TrimSpace(req.query.search), LAMBDA term :
            /\ term = <<>> => resp.body.total_count = Len(req.seen)
            /\ resp.body.total_count = Cardinality(SubstringMatches(req.seen, term)))

\* C15: a list request with fields=email returns, for each user, a document
\* with the email and the identifier, without the profile and without the
\* created and updated timestamps.
C15_OnlySelectedFields ==
    (IsList /\ req.query.fields = PathEmail /\ resp.status = StatusOK) =>
        \A i \in 1..Len(resp.body.users) :
            /\ {"id", "email"} \subseteq DOMAIN resp.body.users[i]
            /\ resp.body.users[i].id # ZeroUser.id
            /\ resp.body.users[i].email # <<>>
            /\ DOMAIN resp.body.users[i] \cap {"profile", "created_at", "updated_at"} = {}

\* A query has been parsed.
IsParsed == calc # NoCalc /\ "query" \in DOMAIN calc

\* The page size a parsed query is served with: the one the handler passes, the
\* one the repository keeps and the limit of the find are the same number.
UsedPageSize(c) ==
    IF c.pagination.PageSize = c.opts.PageSize /\ c.opts.PageSize = c.findOpts.limit
        THEN c.findOpts.limit ELSE 0 - 1

\* C16: a page_size that is missing, not a number, <= 0 or > 100 is replaced by
\* the default 10 (not cut down to 100, and without an error); an integer in
\* [1, 100] is used as given.
C16_PageSizeDefault ==
    IsParsed =>
        /\ calc.err = Nil
        /\ \A p \in SizedTexts :
                calc.query.page_size = p[1] =>
                    UsedPageSize(calc) = IF 1 <= p[2] /\ p[2] <= 100 THEN p[2] ELSE 10
        /\ calc.query.page_size \in OversizedTexts \cup UnsizedTexts =>
                UsedPageSize(calc) = 10

\* page_size=101 is served with 10 documents a page.
C16_Witness ==
    /\ IsParsed
    /\ calc.query.page_size = <<"1", "0", "1">>
    /\ calc.findOpts.limit = 10

\* C17: the order is read lowercased and trimmed; a value that is then not
\* exactly "asc" or "desc" (a missing one too) is served ascending without an
\* error; only "desc", up to letter case and surrounding blanks, sorts descending.
C17_OrderDefault ==
    IsParsed =>
        /\ calc.err = Nil
        /\ calc.params.Order = (IF calc.query.order \in DescTexts
                                    THEN <<"d", "e", "s", "c">> ELSE <<"a", "s", "c">>)
        /\ calc.opts.Order = calc.params.Order
        /\ Len(calc.findOpts.sort) = 1
        /\ calc.findOpts.sort[1].direction = (IF calc.query.order \in DescTexts THEN 0 - 1 ELSE 1)

\* " Desc " sorts descending.
C17_Witness ==
    /\ IsParsed
    /\ calc.query.order = <<" ", "D", "e", "s", "c", " ">>
    /\ calc.findOpts.sort[1].direction = 0 - 1

\* The Register calls among the calls in progress or finished.
RegisterCallsOf(cs) == {i \in 1..Len(cs) : cs[i].op = "Register"}

\* Two stored users share an email.
EmailShared(coll) ==
    \E i, j \in 1..Len(coll) : i # j /\ coll[i].email = coll[j].email

\* C18: on the collection with the unique email index, after any interleaving of
\* concurrent Register calls (emails that differ only in letter case or
\* surrounding blanks included) no two stored users share an email.
C18_NoSharedEmail == ~EmailShared(store)

\* Two Register calls for a@x.io in different spellings both passed the
\* existence check and both finished: the insert of one was refused by the index.
C18_Witness ==
    \E i, j \in RegisterCallsOf(calls) :
        /\ calls[i].email # calls[j].email
        /\ Normalised(calls[i].email) = Normalised(calls[j].email)
        /\ ~calls[i].found /\ ~calls[j].found
        /\ calls[i].pc = "done" /\ calls[j].pc = "done"
        /\ calls[i].err = Nil
        /\ calls[j].err = ErrDuplicateKey(<<"e", "m", "a", "i", "l", "_", "u", "n", "i", "q", "u", "e", "_", "i", "d", "x">>, PathEmail, Normalised(calls[j].email))
        /\ Cardinality(StoredUnder(store, Normalised(calls[i].email))) = 1

\* The call has been through its insert.
PastInsert(c) == c.op = "Register" /\ c.pc = "done" /\ c.user # NilUser

\* The existence check of the call ran before the user of the other call was
\* inserted: the collection it ran on did not hold that user.
CheckedBeforeInsertOf(c, other) ==
    \A k \in 1..Len(c.checkedOn) : c.checkedOn[k].id # other.user.id

\* C19: the existence check and the insert of Register are not one step: two
\* calls for the same email can both pass the check before either inserts, and
\* on a collection without the unique email index both inserts then succeed, so
\* that two stored users share the email.  Two calls that submit the stored
\* spelling of one email both insert in this way only: a check that runs after
\* the insert of the other call finds the email.
C19_BothInserted ==
    \A i, j \in RegisterCallsOf(calls) :
        /\ (/\ i # j
            /\ Normalised(calls[i].email) = Normalised(calls[j].email)
            /\ PastInsert(calls[i]) /\ PastInsert(calls[j])
            /\ CheckedBeforeInsertOf(calls[i], calls[j])
            /\ CheckedBeforeInsertOf(calls[j], calls[i]))
                => /\ ~calls[i].found /\ ~calls[j].found
                   /\ calls[i].err = Nil /\ calls[j].err = Nil
                   /\ Cardinality(StoredUnder(store, Normalised(calls[i].email))) >= 2
                   /\ EmailShared(store)
        /\ (/\ i # j
            /\ calls[i].email = calls[j].email
            /\ calls[i].email = Normalised(calls[i].email)
            /\ PastInsert(calls[i]) /\ PastInsert(calls[j])
            /\ calls[i].err = Nil /\ calls[j].err = Nil)
                => /\ CheckedBeforeInsertOf(calls[i], calls[j])
                   /\ CheckedBeforeInsertOf(calls[j], calls[i])
        /\ (calls[i].email = Normalised(calls[i].email)
                /\ StoredUnder(calls[i].checkedOn, calls[i].email) # {})
                => (calls[i].found /\ calls[i].err = ErrEmailTaken)

\* Two calls that both submit a@x.io, the spelling that is stored: both checks
\* ran on the empty collection, before either insert, both calls returned
\* without an error and the email is stored twice.
C19_Witness ==
    /\ Len(calls) >= 2
    /\ calls[1].email = <<"a", "@", "x", ".", "i", "o">>
    /\ calls[2].email = <<"a", "@", "x", ".", "i", "o">>
    /\ PastInsert(calls[1]) /\ PastInsert(calls[2])
    /\ calls[1].checkedOn = <<>> /\ calls[2].checkedOn = <<>>
    /\ CheckedBeforeInsertOf(calls[1], calls[2])
    /\ CheckedBeforeInsertOf(calls[2], calls[1])
    /\ calls[1].err = Nil /\ calls[2].err = Nil
    /\ Cardinality(StoredUnder(store, <<"a", "@", "x", ".", "i", "o">>)) = 2

\* The finished list requests that were answered.
ListedCalls(cs) ==
    {i \in 1..Len(cs) : cs[i].op = "GetUsers" /\ cs[i].pc = "done" /\ cs[i].err = Nil}

\* C20: the count and the find of a list request are separate store calls:
\* totalCount and totalPages are those of the collection as it was at the count,
\* the items are a page of the collection as it was at the find, and only when
\* nothing was written in between are the items sure to be at most totalCount.
C20_CountAndFindApart ==
    \A i \in ListedCalls(calls) :
        With(calls[i], LAMBDA c :
            /\ c.result.TotalCount = Len(MatchingDocs(c.countedOn, c.filter))
            /\ c.result.TotalPages = calculateTotalPages(c.result.TotalCount, c.opts.PageSize)
            /\ Len(c.result.Users) =
                    (IF Len(MatchingDocs(c.foundOn, c.filter)) < c.opts.PageSize
                        THEN Len(MatchingDocs(c.foundOn, c.filter)) ELSE c.opts.PageSize)
            /\ c.countedOn = c.foundOn => Len(c.result.Users) <= c.result.TotalCount)

\* A first page with more items than totalCount: a user was inserted between
\* the count and the find.
C20_Witness ==
    \E i \in ListedCalls(calls) :
        /\ calls[i].opts.Page = I64(1)
        /\ Len(calls[i].result.Users) > calls[i].result.TotalCount
        /\ calls[i].result.TotalPages = 0

\* C21: in every successful list response, whatever was written concurrently,
\* the items are at most pageSize, page is at least 1 and pageSize is in [1, 100].
C21_PageWithinBounds ==
    \A i \in ListedCalls(calls) :
        /\ Len(calls[i].result.Users) <= calls[i].result.PageSize
        /\ I64IsPos(calls[i].result.Page)
        /\ 1 <= calls[i].result.PageSize
        /\ calls[i].result.PageSize <= 100

\* A full page of size 1 read from a collection of two users or more that was
\* written to between the count and the find.
C21_Witness ==
    \E i \in ListedCalls(calls) :
        /\ calls[i].result.PageSize = 1
        /\ Len(calls[i].result.Users) = 1
        /\ Len(calls[i].foundOn) >= 2
        /\ calls[i].countedOn # calls[i].foundOn

\* The identifiers listed on the pages read, page after page.
RECURSIVE ListedIds(_)
ListedIds(pages) ==
    IF pages = <<>> THEN <<>>
    ELSE ListedIds(SubSeq(pages, 1, Len(pages) - 1))
            \o IdsOf(pages[Len(pages)].body.users)

\* The store was not written to while the pages were read: every count and
\* every find of the reading ran on the same collection.
ReadOn(c) ==
    IF \A p \in 1..Len(c.pages) :
            /\ c.pages[p].counted = c.pages[1].found
            /\ c.pages[p].found = c.pages[1].found
       /\ c.past[1].counted = c.pages[1].found
       /\ c.past[1].found = c.pages[1].found
        THEN <<c.pages[1].found>> ELSE <<>>

\* C22: on a store that is not written to and under a sort that is total over
\* the matching documents, the pages 1..totalPages of one list hold every
\* matching user exactly once, and every page past totalPages has no items and
\* the same totalCount.
C22_PagesCoverOnce ==
    (reading # NoReading /\ reading.past # <<>>
        /\ ReadOn(reading) # <<>>
        /\ SortIsTotal(ReadOn(reading)[1], reading.query)) =>
        With(reading, LAMBDA c :
        With(SubSeq(c.pages, 1, c.pages[1].body.total_pages), LAMBDA upTo :
        With(MatchingDocs(ReadOn(c)[1], buildSearchFilter(TrimSpace(c.query.search))),
             LAMBDA matching :
            /\ \A p \in 1..Len(c.pages) :
                    /\ c.pages[p].status = StatusOK
                    /\ c.pages[p].body.total_count = Len(matching)
            /\ Len(ListedIds(upTo)) = Len(matching)
            /\ Range(ListedIds(upTo)) = Range(IdsOf(matching))
            /\ Len(upTo) < Len(c.pages) => c.pages[1].body.users = <<>>
            /\ c.past[1].status = StatusOK
            /\ c.past[1].body.users = <<>>
            /\ c.past[1].body.total_count = Len(matching))))

\* C23: a list request issues the count before the find, both with the same
\* filter; when the count fails no find is issued, and when either fails the
\* request ends with the store's error (HTTP 500), without a result and without
\* issuing either call a second time.
C23_CountThenFind ==
    (IsList /\ resp.uc # NotCalled) =>
        /\ Len(ops) \in {1, 2}
        /\ ops[1].op = "CountDocuments"
        /\ Len(ops) = 2 => (ops[2].op = "Find" /\ ops[2].filter = ops[1].filter)
        /\ req.fault = 1 => (Len(ops) = 1 /\ resp.uc.err = ErrStoreDown)
        /\ req.fault = 2 => (Len(ops) = 2 /\ resp.uc.err = ErrStoreDown)
        /\ resp.uc.err # Nil =>
                /\ resp.status = StatusInternalServerError
                /\ resp.body = ErrorResponse(resp.uc.err)
                /\ resp.uc.result = NilResult
        /\ resp.uc.err = Nil => (Len(ops) = 2 /\ resp.status = StatusOK)

\* The count of a list request fails on a store that holds users: no find.
C23_Witness ==
    /\ IsList
    /\ req.fault = 1
    /\ store # <<>>
    /\ ops = <<[op |-> "CountDocuments", filter |-> [kind |-> "all"]]>>
    /\ resp.status = StatusInternalServerError

\* C24: when the existence check of Register fails with a store error, that
\* error reaches the caller and no insert is issued; an insert is issued only
\* after a check that succeeded and found no user with the email.
C24_FailedCheckStopsRegister ==
    (IsRegister /\ resp.uc # NotCalled) =>
        /\ req.fault = 1 =>
                /\ resp.uc.err = ErrStoreDown
                /\ Issued(ops, "InsertOne") = {}
        /\ Issued(ops, "InsertOne") # {} =>
                /\ req.fault # 1
                /\ ops[1].op = "FindOne"

\* The UpdateUser calls the store served.
UpdateCallsOf(cs) ==
    {i \in 1..Len(cs) : cs[i].op = "UpdateUser" /\ cs[i].pc = "done" /\ ~cs[i].fault}

\* C25: UpdateUser on a stored identifier sets the stored updated timestamp to
\* the current time and replaces the stored fields by those of the supplied
\* user, so that the stored document then equals the supplied user, fields
\* supplied empty included; it never changes the number of stored users and
\* creates nothing for an identifier that is not stored.
C25_UpdateReplaces ==
    \A i \in UpdateCallsOf(calls) :
        With(calls[i], LAMBDA c :
            /\ Len(c.after) = Len(c.before)
            /\ StoredWithId(c.before, c.user.id) = {} => c.after = c.before
            /\ (c.err = Nil /\ StoredWithId(c.before, c.user.id) # {}) =>
                    \A k \in StoredWithId(c.before, c.user.id) :
                        c.after[k] = [c.user EXCEPT !.updated_at = c.at])

\* A list request went through the parser without a validation error.
IsHandled == calc # NoCalc /\ "request" \in DOMAIN calc /\ calc.err = Nil

\* C26: every options value the parser passes to the use case has page >= 1,
\* 1 <= pageSize <= 100, sortBy among email, created_at, updated_at, first_name,
\* last_name, and order asc or desc, whatever the raw parameters were, unless
\* they produce a validation error.
C26_OptionsValid ==
    IsHandled =>
        /\ I64IsPos(calc.options.Page)
        /\ 1 <= calc.options.PageSize
        /\ calc.options.PageSize <= 100
        /\ calc.options.SortBy \in
                {<<"e", "m", "a", "i", "l">>, <<"c", "r", "e", "a", "t", "e", "d", "_", "a", "t">>,
                 <<"u", "p", "d", "a", "t", "e", "d", "_", "a", "t">>,
                 <<"f", "i", "r", "s", "t", "_", "n", "a", "m", "e">>,
                 <<"l", "a", "s", "t", "_", "n", "a", "m", "e">>}
        /\ calc.options.Order \in {<<"a", "s", "c">>, <<"d", "e", "s", "c">>}

\* page=-1, page_size=101, order=down and no sort pass as page 1 of size 10,
\* sorted by created_at ascending.
C26_Witness ==
    /\ IsHandled
    /\ calc.request.page = <<"-", "1">>
    /\ calc.request.page_size = <<"1", "0", "1">>
    /\ calc.request.order = <<"d", "o", "w", "n">>
    /\ calc.request.sort = <<>>
    /\ calc.options.Page = I64(1)
    /\ calc.options.PageSize = 10
    /\ calc.options.SortBy = PathCreatedAt
    /\ calc.options.Order = <<"a", "s", "c">>

\* C27: for a non-empty field list the projection of the find is the inclusion
\* set of exactly the listed names plus _id, listed or not; for an empty field
\* list there is no projection and every field is returned.
C27_ProjectionIsListedPlusId ==
    IsHandled =>
        \A f \in FieldTexts :
            calc.request.fields = f[1] =>
                /\ calc.findOpts.projection = (IF f[2] = {} THEN {} ELSE f[2] \cup {PathID})
                /\ f[2] = {} => calc.sample = SampleUser
                /\ f[2] # {} => calc.sample.id = SampleUser.id
                /\ f[2] = {PathEmail} =>
                        calc.sample = [ZeroUser EXCEPT !.id = SampleUser.id,
                                                       !.email = SampleUser.email]

\* fields=email: the projection is {email, _id}.
C27_Witness ==
    /\ IsHandled
    /\ calc.request.fields = PathEmail
    /\ calc.findOpts.projection = {PathEmail, PathID}
    /\ calc.sample.id = 1

\* The storage path each sort name stands for.
SortPaths ==
    {<<PathEmail, PathEmail>>, <<PathCreatedAt, PathCreatedAt>>,
     <<PathUpdatedAt, PathUpdatedAt>>,
     <<<<"f", "i", "r", "s", "t", "_", "n", "a", "m", "e">>, PathFirstName>>,
     <<<<"l", "a", "s", "t", "_", "n", "a", "m", "e">>, PathLastName>>}

\* C28: the sort of every find of the list endpoint has exactly one key:
\* profile.first_name for first_name, profile.last_name for last_name, the name
\* itself for email, created_at and updated_at, with direction 1 for asc and
\* -1 for desc; no request sorts on any other storage path.
C28_SortKey ==
    IsHandled =>
        /\ Len(calc.findOpts.sort) = 1
        /\ <<calc.options.SortBy, calc.findOpts.sort[1].path>> \in SortPaths
        /\ calc.findOpts.sort[1].path \in
                {PathEmail, PathCreatedAt, PathUpdatedAt, PathFirstName, PathLastName}
        /\ calc.findOpts.sort[1].direction =
                (IF calc.options.Order = <<"d", "e", "s", "c">> THEN 0 - 1 ELSE 1)
        /\ calc.options.Order = <<"a", "s", "c">> => calc.findOpts.sort[1].direction = 1

\* sort=first_name&order=desc sorts by profile.first_name, direction -1.
C28_Witness ==
    /\ IsHandled
    /\ calc.request.sort = <<"f", "i", "r", "s", "t", "_", "n", "a", "m", "e">>
    /\ calc.request.order = <<"d", "e", "s", "c">>
    /\ calc.findOpts.sort = <<[path |-> PathFirstName, direction |-> 0 - 1]>>

\* C29: for every page the parser accepts and every page size in [1, 100] the
\* skip passed to the store is not negative and is (page - 1) * pageSize, the
\* product not leaving the 64 bits of the integer.
C29_SkipDoesNotWrap ==
    IsHandled =>
        With(MulAddWide(I64Add(calc.options.Page, I64MinusOne), calc.options.PageSize, 0),
             LAMBDA product :
                /\ ~I64IsNeg(calc.findOpts.skip)
                /\ product[5] = 0
                /\ calc.findOpts.skip \o <<0>> = product)

\* The request ended in an error before any insert: the email is taken or
\* invalid, the body or the sort field was refused.
EndedBeforeInsert(rq, rs) ==
    \/ /\ rq.op = "Register"
       /\ \/ rs.uc = NotCalled
          \/ rs.uc.err \in {ErrEmailTaken, ErrInvalidEmail}
    \/ /\ rq.op = "GetUsers"
       /\ rs.status = StatusBadRequest

\* C30: the reads GetUsers, GetUserByID and GetUserByEmail, and every Register
\* or list request that ends in an error before the insert, leave the stored
\* users and all their fields as they were: the step that ends such a request
\* leaves the store, and every step that changes the store ends a Register
\* that issued its insert.
C30_ReadsLeaveStore ==
    [][/\ (\/ req'.op \in {"GetUsers", "GetUserByID", "GetUserByEmail"}
           \/ EndedBeforeInsert(req', resp'))
            => store' = store
       /\ store' # store =>
            /\ req'.op = "Register"
            /\ ~EndedBeforeInsert(req', resp')
            /\ Issued(ops', "InsertOne") # {}]_vars

\* A Register refused because the email is taken, on a store that holds users.
C30_Witness ==
    /\ IsRegister
    /\ resp.uc # NotCalled
    /\ resp.uc.err = ErrEmailTaken
    /\ Len(store) >= 1
    /\ ops # <<>>

====
